---- MODULE Spec2Model ----
(***************************************************************************)
(* Scheduled interception orchestrator of the chrome-extension-scheduler.  *)
(*                                                                         *)
(* Part I   BackgroundScheduler (src/popup/popup.tsx): the dispatcher that *)
(*          claims due schedules in processingQueue, fires them in capped  *)
(*          batches of background tabs and finalizes an ExecutionRecord.   *)
(* Part II  BackgroundManager (src/background/background.ts): the tab      *)
(*          registry activeTabs with closeTab / handleTabRemoved.          *)
(*                                                                         *)
(* Every await of the source is a step boundary: the code between two      *)
(* awaits runs atomically on the single JavaScript thread.                 *)
(***************************************************************************)
EXTENDS Integers, Sequences, FiniteSets, TLC

\* ---------------------------------------------------------------- bounds
MaxTime == 1
MaxFirings == 2
MaxQuantity == 7
MaxTabs == 2
MaxRequests == 3
MaxOverflow == 2
MaxClock == 2
MaxInterval == 2
MaxTracked == 1
MaxAttempts == 5
MaxExecs == 3

\* ------------------------------------------------------- program constants
MAX_CONCURRENT_TABS == 3
HEARTBEAT_TIMEOUT == 1

Schedules == {"s1", "s2"}
ScheduleOrder == <<"s1", "s2">>
NoTime == 0 - 1
CalcError == 0 - 1

VARIABLES
    now,              \* the wall clock read by new Date()
    isRunning,        \* BackgroundScheduler.isRunning
    schedules,        \* db.schedules: schedule id -> Schedule
    processingQueue,  \* BackgroundScheduler.processingQueue
    history,          \* db.history: sequence of ExecutionHistory, id = index;
                      \* tracked: executionData.trackedRequests is not empty
    firings,          \* the executeSchedule invocations that passed the claim
    checks,           \* the checkAndExecuteSchedules call awaiting getActiveSchedules
    isProcessing,     \* processingState.isProcessing in chrome.storage.local
    exec,             \* the BackgroundManager.executeSchedule invocation
    activeTabs,       \* BackgroundManager.activeTabs: tab id -> ActiveTab
    tabs,             \* the tabs open in the browser
    timers,           \* the tabs whose TAB_CLOSE_TIMEOUT_MS timer is armed
    closing,          \* the closeTab invocation of each tab
    removed,          \* chrome.tabs.onRemoved events not yet delivered
    removing,         \* handleTabRemoved invocations awaiting updateExecution
    finalizeCalls,    \* per tab: updateExecution calls that wrote an endTime
    saver,            \* which component saves exchanges: tracker, bridge, scheduler
    stored,           \* chrome.storage.local: the list under the saver's key
    saves,            \* save calls between their storage get and set
    finished,         \* ids of the exchanges whose save call has returned
    nextId,           \* the number of exchanges relayed so far
    sandboxes,        \* the tabs whose content script is alive
    arg,              \* the argument the helper functions are called with
    results,          \* helper name -> the value its call returned
    hybridTabs,       \* HybridBackgroundManager.activeTabs: tab id -> ActiveTab
    injections,       \* per tab: the state of setupContentScriptInjection
    alarms,           \* chrome.alarms: schedule id -> the time the alarm is due
    execs,            \* the executeSchedule invocations of BackgroundManager
    backgroundTabs,   \* BackgroundScheduler.backgroundTabs: schedule id -> tab id
    workerTabs,       \* tab id -> schedule id, the open tabs the firings created
    pendingRequests,  \* setupWebRequestListener: request key -> pending request
    webRequests,      \* the handleWebRequestTracked calls made, in order
    fetches,          \* the calls the page made through the patched fetch
    requestCounter,   \* main-world interceptor: tab id -> requestCounter
    intercepted,      \* the exchanges the interceptors have posted
    savedRequests,    \* chrome.storage.local: tracked_requests_<scheduleId>
    stopping,         \* the tabs a closeAllActiveTabs call in flight will clear
    settingsPoll      \* a hook's waitForSettings: its position and attempts

schedulerVars == <<isRunning, processingQueue, firings, checks, isProcessing>>
managerVars == <<exec, activeTabs, tabs, timers, closing, removed, removing,
                 finalizeCalls>>
storageVars == <<saver, stored, saves, finished, nextId, sandboxes>>
callVars == <<arg, results>>
pageVars == <<backgroundTabs, workerTabs, pendingRequests, webRequests, fetches>>
lateVars == <<requestCounter, intercepted, savedRequests, stopping, settingsPoll>>
hookVars == <<hybridTabs, injections, alarms, execs, pageVars, lateVars>>
vars == <<now, schedules, history, schedulerVars, managerVars, storageVars,
         callVars, hookVars>>

Min(a, b) == IF a < b THEN a ELSE b

\* ------------------------------------------------------------ Schedule Clock

\* An interval computed without adding the interval.
calculateNextRunStale(schedule, t) ==
    IF schedule.param = 0 THEN CalcError ELSE t

\* A due test that misses the instant nextRun itself.
isScheduleDueStrict(schedule, t) == schedule.enabled /\ schedule.nextRun < t

\* SchedulerEngine.calculateNextRun with now = t.  param is the kind-specific
\* parameter: the cron period, intervalMinutes, or oneTimeDate; 0 (NoTime for
\* once) stands for a missing or invalid parameter, for which the code throws.
calculateNextRun(schedule, t) ==
    CASE schedule.type = "cron" ->
            IF schedule.param = 0 THEN CalcError
            ELSE ((t \div schedule.param) + 1) * schedule.param
      [] schedule.type = "interval" ->
            IF schedule.param = 0 THEN CalcError
            ELSE t + schedule.param
      [] schedule.type = "once" ->
            IF schedule.param = NoTime THEN CalcError
            ELSE schedule.param

\* SchedulerEngine.isScheduleDue with now = t.
isScheduleDue(schedule, t) == schedule.enabled /\ schedule.nextRun <= t

\* ---------------------------------------------------- executeBusinessLogic

\* batchSize of executeBusinessLogic; a quantity of 1 runs one context directly.
BatchSize(quantity) ==
    IF quantity = 1 THEN 1 ELSE Min(quantity, MAX_CONCURRENT_TABS)

Pending == {"creating", "waiting"}
Settled == {"ok", "timeout", "fail"}

\* The contexts j of the batch that starts at index i (0-based, as in the code).
BatchRange(i, quantity) == (i + 1)..Min(i + BatchSize(quantity), quantity)

EmptyResults == [ok |-> 0, timeout |-> 0, fail |-> 0]

\* The locals of executeSchedule and executeBusinessLogic once the record
\* (which holds startTime from then on) is created.
Locals(sid, schedule) ==
    [sid |-> sid, type |-> schedule.type, quantity |-> schedule.quantity,
     param |-> schedule.param, hid |-> 0, pc |-> "create",
     i |-> 0, ctx |-> [j \in 1..schedule.quantity |-> "none"],
     batches |-> <<>>, results |-> EmptyResults, captured |-> FALSE]

\* executeSchedule up to its first await: the claim and the startTime.
NewFiring(sid, schedule, t) ==
    [sid |-> sid, schedule |-> schedule, startTime |-> t, hid |-> 0, pc |-> "create"]

\* executeSchedule without the processingQueue.has guard.
executeScheduleUnguarded(st, sid, schedule, t) ==
    [queue |-> st.queue \cup {sid},
     firings |-> Append(st.firings, NewFiring(sid, schedule, t))]

\* BackgroundScheduler.executeSchedule(schedule), synchronous part: returns
\* when the id is already claimed, otherwise claims it and starts a firing.
executeScheduleCall(st, sid, schedule, t) ==
    IF sid \in st.queue
    THEN st
    ELSE [queue |-> st.queue \cup {sid},
          firings |-> Append(st.firings, NewFiring(sid, schedule, t))]

\* The dueSchedules filter of checkAndExecuteSchedules.
dueSchedules(snap, queue, t) ==
    {s \in Schedules : isScheduleDue(snap[s], t) /\ s \notin queue}

\* A dispatch loop that ends with the first schedule it starts.
dispatchFirst(st, due, snap, t, k) ==
    IF due = {} THEN st
    ELSE LET s == CHOOSE x \in due : \A y \in due : x = y \/ x = ScheduleOrder[1]
         IN  executeScheduleCall(st, s, snap[s], t)

RECURSIVE dispatchLoop(_, _, _, _, _)
\* The for-loop of checkAndExecuteSchedules over dueSchedules, from position k.
dispatchLoop(st, due, snap, t, k) ==
    IF k > Len(ScheduleOrder) THEN st
    ELSE LET s == ScheduleOrder[k]
         IN  dispatchLoop(IF s \in due THEN executeScheduleCall(st, s, snap[s], t)
                          ELSE st,
                          due, snap, t, k + 1)

\* ------------------------------------------------------------------ actions

\* Time passes.
Advance ==
    /\ now < MaxTime
    /\ now' = now + 1
    /\ UNCHANGED <<isRunning, schedules, processingQueue, history, firings,
                   checks, isProcessing>>
    /\ UNCHANGED <<managerVars, storageVars, callVars, hookVars>>

\* checkAndExecuteSchedules up to `await getActiveSchedules()`: the alarm
\* 'scheduler-check' or a FORCE_SCHEDULE_CHECK message calls it.  checks holds
\* the list read by the one call that is between the read and its loop.
CheckStart ==
    /\ isRunning
    /\ checks = {}
    /\ checks' = {schedules}
    /\ UNCHANGED <<now, isRunning, schedules, processingQueue, history, firings,
                   isProcessing>>
    /\ UNCHANGED <<managerVars, storageVars, callVars, hookVars>>

\* checkAndExecuteSchedules after the await: filter and the dispatch loop.
CheckDispatch(snap) ==
    /\ snap \in checks
    /\ LET due == dueSchedules(snap, processingQueue, now)
           st  == dispatchLoop([queue |-> processingQueue, firings |-> firings],
                               due, snap, now, 1)
       IN  /\ Len(st.firings) <= MaxFirings
           /\ firings' = st.firings
           /\ processingQueue' = st.queue
    /\ checks' = checks \ {snap}
    /\ UNCHANGED <<now, isRunning, schedules, history, isProcessing>>
    /\ UNCHANGED <<managerVars, storageVars, callVars, hookVars>>

\* forceExecuteSchedule(scheduleId): FORCE_EXECUTE_SCHEDULE message.
ForceExecute(sid) ==
    /\ Len(firings) < MaxFirings
    /\ LET st == executeScheduleCall([queue |-> processingQueue, firings |-> firings],
                                     sid, schedules[sid], now)
       IN  /\ firings' = st.firings
           /\ processingQueue' = st.queue
    /\ UNCHANGED <<now, isRunning, schedules, history, checks, isProcessing>>
    /\ UNCHANGED <<managerVars, storageVars, callVars, hookVars>>

\* ------------------------------------------- executeSchedule, after the claim

SetFiring(f, rec) == firings' = [firings EXCEPT ![f] = rec]

\* An executeSchedule invocation past its finally block ("done") or thrown:
\* the locals of the try block are out of scope, only the schedule id and the
\* id of its ExecutionRecord are remembered.
Ended(rec, how) == [sid |-> rec.sid, hid |-> rec.hid, pc |-> how]

\* The catch block of executeSchedule is entered: it uses the record id only.
ToCatch(rec) == Ended(rec, "catch")

\* HistoryRepository.updateExecution(id, updates) writing endTime and success.
updateExecution(h, hid, t, success) ==
    [h EXCEPT ![hid] = [@ EXCEPT !.endTime = t, !.success = success]]

\* `await HistoryRepository.create(...)`, which stands before the try block:
\* a rejection leaves executeSchedule at once, past catch and finally.
HistoryCreate(f) ==
    /\ f \in DOMAIN firings
    /\ firings[f].pc = "create"
    /\ \E ok \in BOOLEAN :
         IF ok
         THEN /\ history' = Append(history,
                     [scheduleId |-> firings[f].sid, startTime |-> firings[f].startTime,
                      endTime |-> NoTime, success |-> FALSE, tracked |-> FALSE])
              /\ SetFiring(f, [Locals(firings[f].sid, firings[f].schedule)
                                  EXCEPT !.hid = Len(history) + 1, !.pc = "getLink"])
         ELSE /\ history' = history
              /\ SetFiring(f, Ended(firings[f], "thrown"))
    /\ UNCHANGED <<now, isRunning, schedules, processingQueue, checks, isProcessing>>
    /\ UNCHANGED <<managerVars, storageVars, callVars, hookVars>>

\* The first batch of executeBusinessLogic: every context of the batch calls
\* createBackgroundTabWithTracking before the first await of the batch.
startBatch(rec, i) ==
    [rec EXCEPT !.i = i,
                !.ctx = [j \in DOMAIN rec.ctx |->
                            IF j \in BatchRange(i, rec.quantity)
                            THEN "creating" ELSE rec.ctx[j]],
                !.batches = Append(rec.batches,
                                   Cardinality(BatchRange(i, rec.quantity)))]

\* `await LinkRepository.getById(schedule.linkId)`: a missing link throws into
\* the catch block; otherwise updateProcessingState({isProcessing: true, ...})
\* is written and executeBusinessLogic runs up to its first await.
GetLink(f) ==
    /\ f \in DOMAIN firings
    /\ firings[f].pc = "getLink"
    /\ \E found \in BOOLEAN :
         IF found
         THEN /\ isProcessing' = TRUE
              /\ SetFiring(f, startBatch([firings[f] EXCEPT !.pc = "logic"], 0))
         ELSE /\ isProcessing' = isProcessing
              /\ SetFiring(f, ToCatch(firings[f]))
    /\ UNCHANGED <<now, isRunning, schedules, processingQueue, history, checks>>
    /\ UNCHANGED <<managerVars, storageVars, callVars, hookVars>>

\* createBackgroundTabWithTracking: `await chrome.tabs.create(...)`; a failure
\* resolves the context with success false and no tabId.
TabCreate(f, j) ==
    /\ f \in DOMAIN firings
    /\ firings[f].pc = "logic"
    /\ j \in DOMAIN firings[f].ctx
    /\ firings[f].ctx[j] = "creating"
    /\ \E ok \in BOOLEAN :
         SetFiring(f, [firings[f] EXCEPT !.ctx[j] = IF ok THEN "waiting" ELSE "fail"])
    /\ UNCHANGED <<now, isRunning, schedules, processingQueue, history, checks,
                   isProcessing>>
    /\ UNCHANGED <<managerVars, storageVars, callVars, hookVars>>

\* The 20 s timer of createBackgroundTabWithTracking fired and
\* collectNetworkData returned before the PRELOAD_TIMEOUT timer: clearTimeout
\* and resolve({success: true, tabId}).
TabCollected(f, j) ==
    /\ f \in DOMAIN firings
    /\ firings[f].pc = "logic"
    /\ j \in DOMAIN firings[f].ctx
    /\ firings[f].ctx[j] = "waiting"
    /\ SetFiring(f, [firings[f] EXCEPT !.ctx[j] = "ok"])
    /\ UNCHANGED <<now, isRunning, schedules, processingQueue, history, checks,
                   isProcessing>>
    /\ UNCHANGED <<managerVars, storageVars, callVars, hookVars>>

\* The PRELOAD_TIMEOUT timer fires before collectNetworkData returned:
\* resolve({success: false, error: 'Timeout...', tabId}); the tab stays open.
TabTimeout(f, j) ==
    /\ f \in DOMAIN firings
    /\ firings[f].pc = "logic"
    /\ j \in DOMAIN firings[f].ctx
    /\ firings[f].ctx[j] = "waiting"
    /\ SetFiring(f, [firings[f] EXCEPT !.ctx[j] = "timeout"])
    /\ UNCHANGED <<now, isRunning, schedules, processingQueue, history, checks,
                   isProcessing>>
    /\ UNCHANGED <<managerVars, storageVars, callVars, hookVars>>

\* The number of contexts of the batch at i that settled as `outcome`.
Count(rec, outcome) ==
    Cardinality({j \in BatchRange(rec.i, rec.quantity) : rec.ctx[j] = outcome})

\* A batch that is over as soon as one context of it has settled.
anySettled(rec) ==
    \E j \in BatchRange(rec.i, rec.quantity) : rec.ctx[j] \in Settled

\* `await Promise.allSettled(batchPromises)`: the batch is over when every
\* context of it has settled.
batchSettled(rec) ==
    \A j \in BatchRange(rec.i, rec.quantity) : rec.ctx[j] \in Settled

\* A push that keeps the fulfilled contexts only and forgets the failed ones.
pushFulfilled(rec) ==
    [rec EXCEPT !.results = [ok |-> @.ok + Count(rec, "ok"),
                             timeout |-> @.timeout + Count(rec, "timeout"),
                             fail |-> @.fail],
                !.ctx = [j \in DOMAIN rec.ctx |->
                            IF j \in BatchRange(rec.i, rec.quantity)
                               /\ rec.ctx[j] \in Settled
                            THEN "done" ELSE rec.ctx[j]]]

\* results.push(...) for each context of the settled batch.
pushResults(rec) ==
    [rec EXCEPT !.results = [ok |-> @.ok + Count(rec, "ok"),
                             timeout |-> @.timeout + Count(rec, "timeout"),
                             fail |-> @.fail + Count(rec, "fail")],
                !.ctx = [j \in DOMAIN rec.ctx |->
                            IF j \in BatchRange(rec.i, rec.quantity)
                               /\ rec.ctx[j] \in Settled
                            THEN "done" ELSE rec.ctx[j]]]

\* The end of a batch that is not the last: push its results and, after the
\* 2 s delay, start the next batch.
BatchDone(f) ==
    /\ f \in DOMAIN firings
    /\ firings[f].pc = "logic"
    /\ batchSettled(firings[f])
    /\ firings[f].i + BatchSize(firings[f].quantity) < firings[f].quantity
    /\ SetFiring(f, startBatch(pushResults(firings[f]),
                               firings[f].i + BatchSize(firings[f].quantity)))
    /\ UNCHANGED <<now, isRunning, schedules, processingQueue, history, checks,
                   isProcessing>>
    /\ UNCHANGED <<managerVars, storageVars, callVars, hookVars>>

\* The success flag executeSchedule writes when executeBusinessLogic returned.
successFlag(rec) == TRUE

\* The end of the last batch: push its results, wait 5 s, read getTrackedData
\* (captured: whether it returned any exchange), return from
\* executeBusinessLogic and `await HistoryRepository.updateExecution(
\* history.id, {endTime, success: true, ...})`.  A rejection goes to catch.
Finalize(f) ==
    /\ f \in DOMAIN firings
    /\ firings[f].pc = "logic"
    /\ batchSettled(firings[f])
    /\ firings[f].i + BatchSize(firings[f].quantity) >= firings[f].quantity
    /\ \E ok \in BOOLEAN, cap \in BOOLEAN :
         LET rec == [pushResults(firings[f]) EXCEPT !.captured = cap]
         IN  IF ok
             THEN /\ history' = updateExecution(history, rec.hid, now, successFlag(rec))
                  /\ SetFiring(f, [rec EXCEPT !.pc = "next"])
             ELSE /\ history' = history
                  /\ SetFiring(f, ToCatch(rec))
    /\ UNCHANGED <<now, isRunning, schedules, processingQueue, checks, isProcessing>>
    /\ UNCHANGED <<managerVars, storageVars, callVars, hookVars>>

\* The finally block: processingQueue.delete(schedule.id).
release(queue, sid) == queue \ {sid}

\* "Update schedule for next run": calculateNextRun + updateNextRun, or
\* update(enabled: false) for a once schedule.  A throwing calculateNextRun or
\* a rejected repository call goes to catch; otherwise the finally block runs:
\* it releases the claim and calls updateProcessingState({isProcessing:
\* false}), whose chrome.storage.local.set is issued before its await.
UpdateNext(f) ==
    /\ f \in DOMAIN firings
    /\ firings[f].pc = "next"
    /\ LET rec == firings[f]
           nextRun == calculateNextRun(rec, now)
       IN  \E ok \in BOOLEAN :
             IF ok /\ (rec.type = "once" \/ nextRun # CalcError)
             THEN /\ schedules' =
                        IF rec.type # "once"
                        THEN [schedules EXCEPT ![rec.sid].nextRun = nextRun]
                        ELSE [schedules EXCEPT ![rec.sid].enabled = FALSE]
                  /\ processingQueue' = release(processingQueue, rec.sid)
                  /\ isProcessing' = FALSE
                  /\ SetFiring(f, Ended(rec, "done"))
             ELSE /\ SetFiring(f, ToCatch(rec))
                  /\ UNCHANGED <<schedules, processingQueue, isProcessing>>
    /\ UNCHANGED <<now, isRunning, history, checks>>
    /\ UNCHANGED <<managerVars, storageVars, callVars, hookVars>>

\* The catch block: updateExecution(history.id, {endTime, success: false, ...});
\* whether it resolves or rejects, the finally block runs as in UpdateNext.
Catch(f) ==
    /\ f \in DOMAIN firings
    /\ firings[f].pc = "catch"
    /\ \E ok \in BOOLEAN :
         history' = IF ok THEN updateExecution(history, firings[f].hid, now, FALSE)
                    ELSE history
    /\ processingQueue' = release(processingQueue, firings[f].sid)
    /\ isProcessing' = FALSE
    /\ SetFiring(f, Ended(firings[f], "done"))
    /\ UNCHANGED <<now, isRunning, schedules, checks>>
    /\ UNCHANGED <<managerVars, storageVars, callVars, hookVars>>

\* One step of some firing, except the step from one batch to the next.
FiringStep(f) ==
    \/ HistoryCreate(f)
    \/ GetLink(f)
    \/ \E j \in 1..MaxQuantity : TabCreate(f, j)
    \/ \E j \in 1..MaxQuantity : TabCollected(f, j)
    \/ \E j \in 1..MaxQuantity : TabTimeout(f, j)
    \/ Finalize(f)
    \/ UpdateNext(f)
    \/ Catch(f)

\* ============================================================ BackgroundManager

TabIds == 1..MaxTabs

\* activeTabs.set(tabId, entry)
setEntry(registry, t, entry) ==
    [u \in DOMAIN registry \cup {t} |-> IF u = t THEN entry ELSE registry[u]]

\* A delete that leaves the entry in the registry.
keepEntry(registry, t) == registry

\* activeTabs.delete(tabId)
deleteEntry(registry, t) == [u \in DOMAIN registry \ {t} |-> registry[u]]

NoEntries == [u \in {} |-> 0]

ExecIdle ==
    [pc |-> "idle", sid |-> "none", hid |-> 0, i |-> 0, type |-> "none",
     quantity |-> 0, param |-> 0]
ExecDone == [ExecIdle EXCEPT !.pc = "done"]

CloseIdle == [pc |-> "idle", historyId |-> 0, endTime |-> NoTime]
CloseDone == [CloseIdle EXCEPT !.pc = "done"]

\* BackgroundManager.executeSchedule(scheduleId) up to the tab loop, called by
\* checkDueSchedules or handleAlarm: getById of the schedule and of its link,
\* return when one is missing or disabled, HistoryRepository.create.  A
\* rejection is caught and logged.
ManagerExecute(sid) ==
    /\ exec.pc = "idle"
    /\ \E link \in BOOLEAN, ok \in BOOLEAN :
         IF schedules[sid].enabled /\ link /\ ok
         THEN /\ history' = Append(history,
                     [scheduleId |-> sid, startTime |-> now, endTime |-> NoTime,
                      success |-> FALSE, tracked |-> FALSE])
              /\ exec' = [pc |-> "open", sid |-> sid, hid |-> Len(history) + 1,
                          i |-> 0, type |-> schedules[sid].type,
                          quantity |-> schedules[sid].quantity,
                          param |-> schedules[sid].param]
         ELSE /\ history' = history
              /\ exec' = ExecDone
    /\ UNCHANGED <<now, schedules, schedulerVars, storageVars, callVars, hookVars, activeTabs, tabs, timers,
                   closing, removed, removing, finalizeCalls>>

\* `await this.openTrackedTab(link, schedule, historyData.id, i)`: tabs.create,
\* activeTabs.set and the close timer; a failed create is caught and logged.
OpenTrackedTab ==
    /\ exec.pc = "open"
    /\ \E ok \in BOOLEAN :
         LET t == exec.i + 1
         IN  IF ok
             THEN /\ tabs' = tabs \cup {t}
                  /\ activeTabs' = setEntry(activeTabs, t,
                         [scheduleId |-> exec.sid, historyId |-> exec.hid])
                  /\ timers' = timers \cup {t}
             ELSE UNCHANGED <<tabs, activeTabs, timers>>
    /\ exec' = [exec EXCEPT !.i = @ + 1,
                            !.pc = IF exec.i + 1 = exec.quantity THEN "next" ELSE "open"]
    /\ UNCHANGED <<now, schedules, history, schedulerVars, storageVars, callVars, hookVars, closing, removed,
                   removing, finalizeCalls>>

\* "Update schedule's next run" of BackgroundManager.executeSchedule; an error
\* is caught and logged.
ManagerUpdateNext ==
    /\ exec.pc = "next"
    /\ \E ok \in BOOLEAN :
         LET nextRun == calculateNextRun(exec, now)
         IN  schedules' =
                IF ~ok \/ (exec.type # "once" /\ nextRun = CalcError) THEN schedules
                ELSE IF exec.type # "once"
                     THEN [schedules EXCEPT ![exec.sid].nextRun = nextRun]
                     ELSE [schedules EXCEPT ![exec.sid].enabled = FALSE]
    /\ exec' = ExecDone
    /\ UNCHANGED <<now, history, schedulerVars, storageVars, callVars, hookVars, activeTabs, tabs, timers, closing,
                   removed, removing, finalizeCalls>>

\* The close timer fires: closeTab(tabId) up to `await chrome.tabs.get(tabId)`;
\* an untracked tab returns at once.
TimerFires(t) ==
    /\ t \in timers
    /\ timers' = timers \ {t}
    /\ closing' = [closing EXCEPT ![t] =
                      IF t \in DOMAIN activeTabs
                      THEN [pc |-> "get", historyId |-> activeTabs[t].historyId,
                            endTime |-> NoTime]
                      ELSE CloseDone]
    /\ UNCHANGED <<now, schedules, history, schedulerVars, storageVars, callVars, hookVars, exec, activeTabs, tabs,
                   removed, removing, finalizeCalls>>

\* closeTab after chrome.tabs.get: a tab that no longer exists deletes the
\* registry entry and returns; otherwise chrome.tabs.remove is called.
CloseTabGet(t) ==
    /\ closing[t].pc = "get"
    /\ IF t \in tabs
       THEN /\ closing' = [closing EXCEPT ![t].pc = "remove"]
            /\ activeTabs' = activeTabs
       ELSE /\ closing' = [closing EXCEPT ![t] = CloseDone]
            /\ activeTabs' = deleteEntry(activeTabs, t)
    /\ UNCHANGED <<now, schedules, history, schedulerVars, storageVars, callVars, hookVars, exec, tabs, timers,
                   removed, removing, finalizeCalls>>

\* `await chrome.tabs.remove(tabId)`: the browser closes the tab and queues
\* onRemoved; closeTab takes endTime and calls updateExecution.  A rejection
\* (the tab is gone) goes to the catch block, which deletes the entry.
CloseTabRemove(t) ==
    /\ closing[t].pc = "remove"
    /\ IF t \in tabs
       THEN /\ tabs' = tabs \ {t}
            /\ removed' = removed \cup {t}
            /\ closing' = [closing EXCEPT ![t].pc = "update", ![t].endTime = now]
            /\ activeTabs' = activeTabs
       ELSE /\ closing' = [closing EXCEPT ![t] = CloseDone]
            /\ activeTabs' = deleteEntry(activeTabs, t)
            /\ UNCHANGED <<tabs, removed>>
    /\ UNCHANGED <<now, schedules, history, schedulerVars, storageVars, callVars, hookVars, exec, timers, removing,
                   finalizeCalls>>

\* closeTab after `await HistoryRepository.updateExecution(historyId, {endTime,
\* success: true, ...})`: activeTabs.delete, in the catch block as well.
CloseTabUpdate(t) ==
    /\ closing[t].pc = "update"
    /\ \E ok \in BOOLEAN :
         IF ok
         THEN /\ history' = updateExecution(history, closing[t].historyId,
                                            closing[t].endTime, TRUE)
              /\ finalizeCalls' = [finalizeCalls EXCEPT ![t] = @ + 1]
         ELSE UNCHANGED <<history, finalizeCalls>>
    /\ activeTabs' = deleteEntry(activeTabs, t)
    /\ closing' = [closing EXCEPT ![t] = CloseDone]
    /\ UNCHANGED <<now, schedules, schedulerVars, storageVars, callVars, hookVars, exec, tabs, timers, removed,
                   removing>>

\* handleApiTracked(data) for an exchange captured in tab t whose URL contains
\* TRACKING_STOCK_LINK: nothing is done for a tab that is not in the registry;
\* otherwise `await HistoryRepository.updateExecution(historyId,
\* {executionData: {trackedRequests: [trackedData]}, ...})`, whose rejection
\* is caught and logged.
HandleApiTracked(t) ==
    /\ t \in tabs
    /\ t \in DOMAIN activeTabs
    /\ \E ok \in BOOLEAN :
         history' = IF ok
                    THEN [history EXCEPT ![activeTabs[t].historyId].tracked = TRUE]
                    ELSE history
    /\ UNCHANGED <<now, schedules, schedulerVars, managerVars, storageVars, callVars, hookVars>>

\* closeTab(tabId) is called once more for a tab whose closeTab has returned:
\* it runs up to `await chrome.tabs.get(tabId)`, or returns at once for a tab
\* that is not in the registry.
CloseTabAgain(t) ==
    /\ closing[t].pc = "done"
    /\ closing' = [closing EXCEPT ![t] =
                      IF t \in DOMAIN activeTabs
                      THEN [pc |-> "get", historyId |-> activeTabs[t].historyId,
                            endTime |-> NoTime]
                      ELSE CloseDone]
    /\ UNCHANGED <<now, schedules, history, schedulerVars, storageVars, callVars,
                   hookVars, exec, activeTabs, tabs, timers, removed, removing,
                   finalizeCalls>>

\* Something outside the extension closes the tab: the browser queues onRemoved.
ExternalClose(t) ==
    /\ t \in tabs
    /\ tabs' = tabs \ {t}
    /\ removed' = removed \cup {t}
    /\ UNCHANGED <<now, schedules, history, schedulerVars, storageVars, callVars, hookVars, exec, activeTabs,
                   timers, closing, removing, finalizeCalls>>

\* handleTabRemoved(tabId) up to `await HistoryRepository.updateExecution`:
\* nothing is done for a tab that is not in the registry.
HandleTabRemoved(t) ==
    /\ t \in removed
    /\ removed' = removed \ {t}
    /\ removing' = IF t \in DOMAIN activeTabs
                   THEN setEntry(removing, t,
                            [historyId |-> activeTabs[t].historyId, endTime |-> now])
                   ELSE removing
    /\ UNCHANGED <<now, schedules, history, schedulerVars, storageVars, callVars, hookVars, exec, activeTabs, tabs,
                   timers, closing, finalizeCalls>>

\* handleTabRemoved after the await: a rejection is caught and logged, then
\* activeTabs.delete(tabId).
TabRemovedUpdate(t) ==
    /\ t \in DOMAIN removing
    /\ \E ok \in BOOLEAN :
         IF ok
         THEN /\ history' = updateExecution(history, removing[t].historyId,
                                            removing[t].endTime, TRUE)
              /\ finalizeCalls' = [finalizeCalls EXCEPT ![t] = @ + 1]
         ELSE UNCHANGED <<history, finalizeCalls>>
    /\ activeTabs' = deleteEntry(activeTabs, t)
    /\ removing' = deleteEntry(removing, t)
    /\ UNCHANGED <<now, schedules, schedulerVars, storageVars, callVars, hookVars, exec, tabs, timers, closing,
                   removed>>

\* ============================================================ exchange storage

Savers == {"tracker", "bridge", "scheduler"}

TRACKER_CAP == 200
BRIDGE_CAP == 100
SCHEDULER_CAP == 1000

\* The cap each save function applies to its list.
Cap(s) ==
    CASE s = "tracker" -> TRACKER_CAP
      [] s = "bridge" -> BRIDGE_CAP
      [] s = "scheduler" -> SCHEDULER_CAP

\* existingData.findIndex(item => item.id === request.id), 1-based; 0: none.
findIndex(list, id) ==
    IF \E k \in 1..Len(list) : list[k] = id
    THEN CHOOSE k \in 1..Len(list) :
            list[k] = id /\ \A j \in 1..(k - 1) : list[j] # id
    ELSE 0

\* A splice that drops the newest entries beyond the cap.
spliceNewest(list, cap) ==
    IF Len(list) > cap THEN SubSeq(list, 1, cap) ELSE list

\* if (list.length > cap) list.splice(0, list.length - cap)
spliceOldest(list, cap) ==
    IF Len(list) > cap THEN SubSeq(list, Len(list) - cap + 1, Len(list)) ELSE list

\* RequestTracker.saveToStorage and IsolatedWorldBridge.saveToStorage between
\* the storage get and set: update in place or push, then the cap.
saveToStorage(list, id, cap) ==
    LET k == findIndex(list, id)
    IN  spliceOldest(IF k > 0 THEN [list EXCEPT ![k] = id] ELSE Append(list, id),
                     cap)

\* BackgroundScheduler.saveTrackedRequest between the storage get and set.
saveTrackedRequest(list, id, cap) == spliceOldest(Append(list, id), cap)

\* The list a save call of component s writes, from the list it read.
savedList(s, list, id) ==
    IF s = "scheduler" THEN saveTrackedRequest(list, id, Cap(s))
    ELSE saveToStorage(list, id, Cap(s))

\* A save call starts for a newly relayed exchange of tab t and its
\* `await chrome.storage.local.get(key)` reads the stored list.
BeginSave(t, limit) ==
    /\ t \in sandboxes
    /\ nextId < limit
    /\ nextId' = nextId + 1
    /\ saves' = saves \cup {[tab |-> t, id |-> nextId + 1, read |-> stored]}
    /\ UNCHANGED <<now, schedules, history, schedulerVars, managerVars, callVars, hookVars, saver,
                   stored, finished, sandboxes>>

\* handleInterceptedRequest / the TRACK_REQUEST listener: a save call starts
\* while others may be in flight.
SaveGet(t) == BeginSave(t, MaxRequests)

\* A save call that starts when no other is in flight.
SaveGetAlone(t) == saves = {} /\ BeginSave(t, Cap(saver) + MaxOverflow)

\* `await chrome.storage.local.set({[key]: list})` of a save call, which then
\* returns.
SaveSet(s) ==
    /\ s \in saves
    /\ stored' = savedList(saver, s.read, s.id)
    /\ saves' = saves \ {s}
    /\ finished' = finished \cup {s.id}
    /\ UNCHANGED <<now, schedules, history, schedulerVars, managerVars, callVars, hookVars, saver,
                   nextId, sandboxes>>

\* The tab of a sandbox is force-closed: its content script, and with it the
\* save calls of RequestTracker or IsolatedWorldBridge in flight, are gone;
\* saveTrackedRequest runs in the background page and goes on.
SandboxClosed(t) ==
    /\ t \in sandboxes
    /\ sandboxes' = sandboxes \ {t}
    /\ saves' = IF saver = "scheduler" THEN saves
                ELSE {s \in saves : s.tab # t}
    /\ UNCHANGED <<now, schedules, history, schedulerVars, managerVars, callVars, hookVars, saver,
                   stored, finished, nextId>>

\* ------------------------------------------------------------ specifications

OnceSchedule(t) ==
    [type |-> "once", enabled |-> TRUE, nextRun |-> t, quantity |-> 1, param |-> t]

\* The schedules the dispatcher specification starts from: s1 fires once,
\* s2 every minute; both are due at the first tick.
InitSchedules ==
    {[s \in Schedules |->
        IF s = "s1" THEN OnceSchedule(0)
        ELSE [type |-> "interval", enabled |-> TRUE, nextRun |-> 0, quantity |-> 1,
              param |-> 1]]}

\* ------------------------------------------------------ URL match predicate

\* A URL is a sequence of pieces.  The pieces are cut so that every pattern of
\* the source is a sequence of whole pieces, and String.includes is a search
\* for a contiguous run of pieces.
includes(s, p) ==
    \E i \in 0..(Len(s) - Len(p)) : SubSeq(s, i + 1, i + Len(p)) = p

\* String.endsWith
endsWith(s, p) ==
    Len(p) <= Len(s) /\ SubSeq(s, Len(s) - Len(p) + 1, Len(s)) = p

\* String.toLowerCase, piece by piece.
lowerPiece(c) ==
    CASE c = "HTTPS://SHOPEE.VN" -> "https://shopee.vn"
      [] c = "API" -> "api"
      [] c = "V4" -> "v4"
      [] c = "PDP" -> "pdp"
      [] c = "GET_PC" -> "get_pc"
      [] OTHER -> c

toLowerCase(s) == [i \in 1..Len(s) |-> lowerPiece(s[i])]

\* url.split('?')[0]
beforeQuery(s) ==
    LET marks == {i \in 1..Len(s) : s[i] = "?"}
    IN  IF marks = {} THEN s
        ELSE SubSeq(s, 1, (CHOOSE i \in marks : \A j \in marks : i <= j) - 1)

Origins == {"https://shopee.vn", "HTTPS://SHOPEE.VN", "https://mall.shopee.vn"}

\* new URL(s).pathname: what follows the origin, up to the query.
pathname(s) ==
    LET path == beforeQuery(s)
    IN  IF path # <<>> /\ path[1] \in Origins THEN Tail(path) ELSE path

TRACKING_STOCK_LINK ==
    <<"https://shopee.vn", "/", "api", "/", "v4", "/", "pdp", "/", "get_pc">>

ALTERNATIVE_TRACKING_PATTERNS ==
    { <<"/", "api", "/", "v4", "/", "pdp", "/", "get_pc">>,
      <<"api", "/", "v4", "/", "pdp", "/", "get_pc">>,
      <<"/", "api", "/", "v4", "/", "item", "/", "get">>,
      <<"api", "/", "v4", "/", "item", "/", "get">>,
      <<"/", "api", "/", "v4", "/", "product", "/">>,
      <<"api", "/", "v4", "/", "product", "/">> }

\* apiPatterns of BackgroundScheduler.shouldTrackUrl
apiPatterns ==
    { <<"api", "/">>, <<"/", "api">>, <<"ajax">>, <<".php">>, <<"json">>,
      <<"rest", "/">>, <<"/", "rest">> }

\* URL_MATCHING_HELPERS.isTrackingUrl
isTrackingUrl(url) ==
    IF url = <<>> THEN FALSE
    ELSE \/ includes(url, TRACKING_STOCK_LINK)
         \/ \E pattern \in ALTERNATIVE_TRACKING_PATTERNS : includes(url, pattern)

\* BackgroundManager.shouldTrackUrl, the test of the webRequest listeners.
shouldTrackUrl(url) ==
    \/ includes(url, TRACKING_STOCK_LINK)
    \/ \E pattern \in ALTERNATIVE_TRACKING_PATTERNS : includes(url, pattern)

\* RequestTracker.shouldTrackUrl, the test of the content script.
trackerShouldTrackUrl(url) ==
    \/ includes(url, TRACKING_STOCK_LINK)
    \/ \E pattern \in ALTERNATIVE_TRACKING_PATTERNS : includes(url, pattern)

\* BackgroundScheduler.shouldTrackUrl
schedulerShouldTrackUrl(url) ==
    IF TRACKING_STOCK_LINK = <<>>
    THEN \E pattern \in apiPatterns :
            includes(toLowerCase(url), toLowerCase(pattern))
    ELSE \/ url = TRACKING_STOCK_LINK
         \/ includes(url, TRACKING_STOCK_LINK)
         \/ includes(toLowerCase(url), toLowerCase(TRACKING_STOCK_LINK))
         \/ endsWith(url, TRACKING_STOCK_LINK)
         \/ includes(beforeQuery(url), TRACKING_STOCK_LINK)

\* The test in the XMLHttpRequest.prototype.open override of the main-world
\* interceptor: TRACKING_URL is settings.TRACKING_STOCK_LINK.
interceptorMatch(url) == includes(url, TRACKING_STOCK_LINK)

\* shouldTrackUrl of startInterception: TRACKING_PATH is the pathname of
\* settings.TRACKING_STOCK_LINK.
TRACKING_PATH == pathname(TRACKING_STOCK_LINK)

pathShouldTrackUrl(url) == url # <<>> /\ includes(url, TRACKING_PATH)

\* The URLs the predicates are called with: an optional origin, a path and an
\* optional query string.
UrlOrigins == {<<>>} \cup {<<o>> : o \in Origins}

UrlPaths ==
    { <<>>,
      <<"/", "api", "/", "v4", "/", "pdp", "/", "get_pc">>,
      <<"/", "API", "/", "V4", "/", "PDP", "/", "GET_PC">>,
      <<"/", "api", "/", "v4", "/", "item", "/", "get">>,
      <<"/", "api", "/", "v4", "/", "product", "/", "list">>,
      <<"/", "api", "/", "v2", "/", "shop">>,
      <<"/", "other">> }

UrlQueries == {<<>>, <<"?", "id=1">>, <<"?", "next=", "api", "/", "v4", "/", "item", "/", "get">>}

Urls == {o \o p \o q : o \in UrlOrigins, p \in UrlPaths, q \in UrlQueries}

\* A helper returns value: the call is recorded under the helper's name.
Return(name, value) ==
    /\ results' = [n \in DOMAIN results \cup {name} |->
                      IF n = name THEN value ELSE results[n]]
    /\ UNCHANGED <<now, schedules, history, schedulerVars, managerVars,
                   storageVars, hookVars, arg>>

CallIsTrackingUrl == Return("isTrackingUrl", isTrackingUrl(arg))
CallShouldTrackUrl == Return("shouldTrackUrl", shouldTrackUrl(arg))
CallTrackerShouldTrackUrl ==
    Return("trackerShouldTrackUrl", trackerShouldTrackUrl(arg))
CallSchedulerShouldTrackUrl ==
    Return("schedulerShouldTrackUrl", schedulerShouldTrackUrl(arg))
CallInterceptorMatch == Return("interceptorMatch", interceptorMatch(arg))
CallPathShouldTrackUrl == Return("pathShouldTrackUrl", pathShouldTrackUrl(arg))

\* ---------------------------------------------------------- models extraction

\* A parsed JSON value: t is what typeof and the null test tell apart, v the
\* content (for an object, a function from its keys to values).
Null == [t |-> "null"]
Number(n) == [t |-> "number", v |-> n]
String(s) == [t |-> "string", v |-> s]
Boolean(b) == [t |-> "boolean", v |-> b]
Array(a) == [t |-> "array", v |-> a]
Object(o) == [t |-> "object", v |-> o]

\* One-key and two-key object literals.
Obj1(k, x) == Object([n \in {k} |-> x])
Obj2(k, x, l, y) == Object([n \in {k, l} |-> IF n = k THEN x ELSE y])

\* !x
falsy(x) ==
    \/ x.t = "null"
    \/ x.t = "number" /\ x.v = 0
    \/ x.t = "string" /\ x.v = ""
    \/ x.t = "boolean" /\ ~x.v

\* typeof x === 'object'
typeofObject(x) == x.t \in {"null", "array", "object"}

\* segment in x, for a path segment (no segment is an array index or length)
in(segment, x) == x.t = "object" /\ segment \in DOMAIN x.v

\* MODELS_POSITION.split('.')
MODELS_POSITION == <<"data", "item", "models">>

\* A walk that keeps the last value it reached when a segment is missing.
RECURSIVE walkLenient(_, _)
walkLenient(current, pathSegments) ==
    IF pathSegments = <<>> THEN current
    ELSE IF falsy(current) \/ ~typeofObject(current)
            \/ ~in(Head(pathSegments), current)
         THEN current
         ELSE walkLenient(current.v[Head(pathSegments)], Tail(pathSegments))

\* The for loop of extractModels and of extractModelsFromResponse.
RECURSIVE walk(_, _)
walk(current, pathSegments) ==
    IF pathSegments = <<>> THEN current
    ELSE IF falsy(current) \/ ~typeofObject(current)
            \/ ~in(Head(pathSegments), current)
         THEN Null
         ELSE walk(current.v[Head(pathSegments)], Tail(pathSegments))

\* VALIDATION.extractModels
extractModels(responseData) ==
    IF falsy(responseData) \/ ~typeofObject(responseData) THEN Null
    ELSE walk(responseData, MODELS_POSITION)

\* RequestTracker.extractModelsFromResponse
extractModelsFromResponse(responseBody) ==
    IF falsy(responseBody) THEN Null
    ELSE walk(responseBody, MODELS_POSITION)

\* The parsed bodies the extraction is called with, built level by level.
Scalars ==
    { Null, Number(0), Number(1), String(""), String("x"), Boolean(FALSE),
      Boolean(TRUE), Array(<<>>), Object(<<>>) }

ModelsValues == Scalars \cup {Array(<<Number(1), Number(2)>>)}

ItemValues ==
    Scalars \cup {Obj1("models", m) : m \in ModelsValues}
            \cup {Obj1("name", String("x"))}

DataValues ==
    Scalars \cup {Obj1("item", i) : i \in ItemValues}
            \cup {Obj1("models", Array(<<Number(1), Number(2)>>))}

Bodies ==
    Scalars \cup {Obj1("data", d) : d \in DataValues}
            \cup {Obj2("data", Obj1("item", Obj1("models", Number(1))),
                       "error", Number(0)),
                  Obj1("item", Obj1("models", Number(1)))}

CallExtractModels == Return("extractModels", extractModels(arg))
CallExtractModelsFromResponse ==
    Return("extractModelsFromResponse", extractModelsFromResponse(arg))

\* ---------------------------------------------------- Schedule Clock calls

\* The schedules the Schedule Clock is called with.
ClockSchedules ==
    [type : {"cron", "interval", "once"}, enabled : BOOLEAN,
     nextRun : 0..MaxClock, quantity : {1}, param : 0..MaxInterval]

CallIsScheduleDue == Return("isScheduleDue", isScheduleDue(arg, now))
CallCalculateNextRun == Return("calculateNextRun", calculateNextRun(arg, now))

\* ====================================================== HybridBackgroundManager

\* The tab the hybrid manager is followed on.
HybridTabIds == {1}

\* The ActiveTab entry openTrackedTab registers; pc is the position of the
\* ensureScriptsInjected call that works on the tab.
NewActiveTab(t) ==
    [startTime |-> t, settingsInjected |-> FALSE, isolatedWorldReady |-> FALSE,
     mainWorldReady |-> FALSE, lastHeartbeat |-> NoTime, trackedCount |-> 0,
     pc |-> "settings"]

\* A status that never reports a stalled tab.
getTabStatusNoTimeout(tab, t) ==
    IF tab.trackedCount > 0 THEN "tracking"
    ELSE IF tab.mainWorldReady /\ tab.isolatedWorldReady THEN "ready"
    ELSE IF tab.settingsInjected THEN "injecting"
    ELSE "loading"

\* HybridBackgroundManager.getTabStatus with now = t; the clock counts minutes,
\* so that 60000 ms is HEARTBEAT_TIMEOUT.
getTabStatus(tab, t) ==
    LET timeSinceStart == t - tab.startTime
        timeSinceHeartbeat == IF tab.lastHeartbeat # NoTime
                              THEN t - tab.lastHeartbeat ELSE timeSinceStart
    IN  IF timeSinceHeartbeat > HEARTBEAT_TIMEOUT THEN "inactive"
        ELSE IF tab.trackedCount > 0 THEN "tracking"
        ELSE IF tab.mainWorldReady /\ tab.isolatedWorldReady THEN "ready"
        ELSE IF tab.settingsInjected THEN "injecting"
        ELSE "loading"

\* What every step of the hybrid manager leaves alone.
HybridFrame ==
    UNCHANGED <<schedules, history, schedulerVars, managerVars, storageVars,
                callVars, injections, alarms, execs, pageVars, lateVars>>

\* Time passes while the tab is open.
HybridTick ==
    /\ now < MaxClock
    /\ now' = now + 1
    /\ UNCHANGED hybridTabs
    /\ HybridFrame

\* openTrackedTab after `await chrome.tabs.create`: activeTabs.set, the start
\* of ensureScriptsInjected, which runs up to the await of injectSettings,
\* and the close timer.  A tab id is used once.
HybridOpenTab(t) ==
    /\ isRunning
    /\ t \notin DOMAIN hybridTabs
    /\ t \notin tabs \cup timers \cup removed
    /\ closing[t].pc = "idle"
    /\ hybridTabs' = setEntry(hybridTabs, t, NewActiveTab(now))
    /\ tabs' = tabs \cup {t}
    /\ timers' = timers \cup {t}
    /\ UNCHANGED <<now, schedules, history, schedulerVars, storageVars, callVars,
                   exec, activeTabs, closing, removed, removing, finalizeCalls,
                   injections, alarms, execs, pageVars, lateVars>>

\* ensureScriptsInjected after `await this.injectSettings(tabId)`; a rejection
\* is caught and ends the call.
InjectSettingsDone(t) ==
    /\ t \in DOMAIN hybridTabs
    /\ hybridTabs[t].pc = "settings"
    /\ \E ok \in BOOLEAN :
         hybridTabs' = [hybridTabs EXCEPT ![t] =
            IF ok THEN [@ EXCEPT !.settingsInjected = TRUE, !.pc = "wait"]
            ELSE [@ EXCEPT !.pc = "none"]]
    /\ UNCHANGED now
    /\ HybridFrame

\* ensureScriptsInjected after the one-second wait: injectMainWorldScript is
\* called unless mainWorldReady is set.
InjectWaitDone(t) ==
    /\ t \in DOMAIN hybridTabs
    /\ hybridTabs[t].pc = "wait"
    /\ hybridTabs' = [hybridTabs EXCEPT ![t].pc =
                         IF hybridTabs[t].mainWorldReady THEN "none" ELSE "main"]
    /\ UNCHANGED now
    /\ HybridFrame

\* injectMainWorldScript after `await chrome.scripting.executeScript`: success
\* sets mainWorldReady, a rejection is caught.
InjectMainDone(t) ==
    /\ t \in DOMAIN hybridTabs
    /\ hybridTabs[t].pc = "main"
    /\ \E ok \in BOOLEAN :
         hybridTabs' = [hybridTabs EXCEPT ![t] =
            IF ok THEN [@ EXCEPT !.mainWorldReady = TRUE, !.pc = "none"]
            ELSE [@ EXCEPT !.pc = "none"]]
    /\ UNCHANGED now
    /\ HybridFrame

\* chrome.tabs.onUpdated with status 'complete' (the page was reloaded):
\* ensureScriptsInjected is called again.
TabReloaded(t) ==
    /\ t \in DOMAIN hybridTabs
    /\ hybridTabs[t].pc = "none"
    /\ hybridTabs' = [hybridTabs EXCEPT ![t].pc =
                         IF hybridTabs[t].settingsInjected THEN "wait" ELSE "settings"]
    /\ UNCHANGED now
    /\ HybridFrame

\* HybridBackgroundManager.handleHeartbeat(data, sender) for sender.tab.id = t.
handleHeartbeat(t, totalTracked, isMainWorldActive) ==
    /\ t \in DOMAIN hybridTabs
    /\ hybridTabs' = [hybridTabs EXCEPT ![t] =
                         [@ EXCEPT !.lastHeartbeat = now,
                                   !.trackedCount = totalTracked,
                                   !.isolatedWorldReady = TRUE,
                                   !.mainWorldReady = isMainWorldActive]]
    /\ UNCHANGED now
    /\ HybridFrame

\* The content script of tab t sends its heartbeat.  totalTracked is the size
\* of its trackedRequests, which only grows while the page lives;
\* isMainWorldActive is true in the heartbeat of IsolatedWorldBridge and
\* absent from the heartbeat of RequestTracker.
Heartbeat(t) ==
    /\ t \in DOMAIN hybridTabs
    /\ UNCHANGED saver
    /\ \E totalTracked \in hybridTabs[t].trackedCount..MaxTracked :
         handleHeartbeat(t, totalTracked, saver = "bridge")

\* ------------------------------------------- setupContentScriptInjection

\* What the injection steps leave alone.
InjectionFrame ==
    UNCHANGED <<now, schedules, history, schedulerVars, managerVars,
                storageVars, callVars, hybridTabs, alarms, execs, pageVars, lateVars>>

\* inject(attempt, trigger) is called for tab t: one more injection attempt.
inject(entry) == [entry EXCEPT !.attempts = @ + 1]

\* setupContentScriptInjection(tabId, ...): inject(1, 'immediate'), the two
\* timers of 2 s and 5 s, and the onUpdated listener with its 30 s removal.
SetupContentScriptInjection(t) ==
    /\ t \notin DOMAIN injections
    /\ injections' = setEntry(injections, t,
                        [attempts |-> 1, timers |-> {2, 3}, listening |-> TRUE])
    /\ InjectionFrame

\* A timer of setupContentScriptInjection fires: inject(2, '2s-delay') after
\* 2 s, inject(3, '5s-delay') after 5 s.
InjectTimerFires(t, k) ==
    /\ t \in DOMAIN injections
    /\ k \in injections[t].timers
    /\ \A j \in injections[t].timers : k <= j
    /\ injections' = [injections EXCEPT ![t] =
                         inject([@ EXCEPT !.timers = @ \ {k}])]
    /\ InjectionFrame

\* tabListener: chrome.tabs.onUpdated for the tab with status 'loading' or
\* 'complete' calls inject(4, ...) or inject(5, ...) while the listener is
\* registered.  (The attempts are counted up to MaxAttempts.)
TabListener(t) ==
    /\ t \in DOMAIN injections
    /\ injections[t].listening
    /\ injections[t].attempts < MaxAttempts
    /\ injections' = [injections EXCEPT ![t] = inject(@)]
    /\ InjectionFrame

\* The 30 s timer removes the listener; the 2 s and 5 s timers fired before.
ListenerRemoved(t) ==
    /\ t \in DOMAIN injections
    /\ injections[t].listening
    /\ injections[t].timers = {}
    /\ injections' = [injections EXCEPT ![t].listening = FALSE]
    /\ InjectionFrame

\* ------------------------------ BackgroundManager: interval check and alarms

\* What the scheduling steps of BackgroundManager leave alone.
AlarmFrame ==
    UNCHANGED <<now, schedulerVars, managerVars, storageVars, callVars,
                hybridTabs, injections, pageVars, lateVars>>

\* BackgroundManager.executeSchedule(scheduleId) is called: getById of the
\* schedule and of its link, return when one is missing or disabled, then
\* HistoryRepository.create.  Whether the schedule is due or already being
\* executed is not looked at.
executeScheduleStart(sid) ==
    IF schedules[sid].enabled
    THEN /\ history' = Append(history,
                [scheduleId |-> sid, startTime |-> now, endTime |-> NoTime,
                 success |-> FALSE, tracked |-> FALSE])
         /\ execs' = Append(execs,
                [pc |-> "open", sid |-> sid, i |-> 0,
                 type |-> schedules[sid].type,
                 quantity |-> schedules[sid].quantity,
                 param |-> schedules[sid].param])
    ELSE UNCHANGED <<history, execs>>

\* checkDueSchedules, called by the 60 s interval, reaches one of the active
\* schedules in its loop: a due schedule is executed, for another one the
\* alarm schedule_<id> is created at its nextRun.
CheckDueSchedules(sid) ==
    /\ isRunning
    /\ schedules[sid].enabled
    /\ Len(execs) < MaxExecs
    /\ IF schedules[sid].nextRun <= now
       THEN /\ executeScheduleStart(sid)
            /\ UNCHANGED alarms
       ELSE /\ alarms' = setEntry(alarms, sid, schedules[sid].nextRun)
            /\ UNCHANGED <<history, execs>>
    /\ UNCHANGED schedules
    /\ AlarmFrame

\* The alarm schedule_<id> goes off: handleAlarm calls executeSchedule.
handleAlarm(sid) ==
    /\ sid \in DOMAIN alarms
    /\ alarms[sid] <= now
    /\ Len(execs) < MaxExecs
    /\ alarms' = deleteEntry(alarms, sid)
    /\ executeScheduleStart(sid)
    /\ UNCHANGED schedules
    /\ AlarmFrame

\* `await this.openTrackedTab(...)` of invocation e returns.
ExecOpenTab(e) ==
    /\ e \in DOMAIN execs
    /\ execs[e].pc = "open"
    /\ execs' = [execs EXCEPT ![e].i = @ + 1,
                              ![e].pc = IF execs[e].i + 1 = execs[e].quantity
                                        THEN "next" ELSE "open"]
    /\ UNCHANGED <<schedules, history, alarms>>
    /\ AlarmFrame

\* "Update schedule's next run" of invocation e; an error is caught and logged.
ExecUpdateNext(e) ==
    /\ e \in DOMAIN execs
    /\ execs[e].pc = "next"
    /\ \E ok \in BOOLEAN :
         LET nextRun == calculateNextRun(execs[e], now)
             sid == execs[e].sid
         IN  schedules' =
                IF ~ok \/ (execs[e].type # "once" /\ nextRun = CalcError)
                THEN schedules
                ELSE IF execs[e].type # "once"
                     THEN [schedules EXCEPT ![sid].nextRun = nextRun]
                     ELSE [schedules EXCEPT ![sid].enabled = FALSE]
    /\ execs' = [execs EXCEPT ![e].pc = "done"]
    /\ UNCHANGED <<history, alarms>>
    /\ AlarmFrame

\* No tab of the hybrid manager, no hook at work.
PageIdle ==
    /\ backgroundTabs = <<>>
    /\ workerTabs = <<>>
    /\ pendingRequests = <<>>
    /\ webRequests = <<>>
    /\ fetches = <<>>

\* No hook is waiting for its settings.
NoPoll == [hook |-> "none", pc |-> "idle", attempts |-> 0, settings |-> FALSE]

LateIdle ==
    /\ requestCounter = <<>>
    /\ intercepted = {}
    /\ savedRequests = <<>>
    /\ stopping = FALSE
    /\ settingsPoll = NoPoll

HookIdle ==
    /\ hybridTabs = <<>>
    /\ injections = <<>>
    /\ alarms = <<>>
    /\ execs = <<>>
    /\ PageIdle
    /\ LateIdle

\* No helper has been called.
CallIdle ==
    /\ arg = <<>>
    /\ results = <<>>

\* Nothing captured, nothing stored.
StorageIdle ==
    /\ saver = "tracker"
    /\ stored = <<>>
    /\ saves = {}
    /\ finished = {}
    /\ nextId = 0
    /\ sandboxes = {}

\* No BackgroundManager activity.
ManagerIdle ==
    /\ exec = ExecIdle
    /\ activeTabs = NoEntries
    /\ tabs = {}
    /\ timers = {}
    /\ closing = [t \in TabIds |-> CloseIdle]
    /\ removed = {}
    /\ removing = NoEntries
    /\ finalizeCalls = [t \in TabIds |-> 0]

\* BackgroundScheduler after start(): isRunning is set, nothing is claimed.
Init ==
    /\ now = 0
    /\ isRunning = TRUE
    /\ schedules \in InitSchedules
    /\ processingQueue = {}
    /\ history = <<>>
    /\ firings = <<>>
    /\ checks = {}
    /\ isProcessing = FALSE
    /\ ManagerIdle
    /\ StorageIdle
    /\ CallIdle
    /\ HookIdle

Next ==
    \/ Advance
    \/ CheckStart
    \/ \E snap \in checks : CheckDispatch(snap)
    \/ \E sid \in Schedules : ForceExecute(sid)
    \/ \E f \in 1..MaxFirings : FiringStep(f)

\* The dispatcher: timer ticks, forced checks and forced executions of two
\* schedules of quantity 1 (one batch), every repository call free to fail.
Spec == Init /\ [][Next]_vars

\* One interval schedule of any quantity up to MaxQuantity, fired by the timer
\* tick alone: s2 is disabled.
InitBatchSchedules ==
    {[s \in Schedules |->
        IF s = "s1"
        THEN [type |-> "interval", enabled |-> TRUE, nextRun |-> 0, quantity |-> q,
              param |-> 1]
        ELSE [OnceSchedule(0) EXCEPT !.enabled = FALSE]] :
     q \in 1..MaxQuantity}

InitBatch ==
    /\ now = 0
    /\ isRunning = TRUE
    /\ schedules \in InitBatchSchedules
    /\ processingQueue = {}
    /\ history = <<>>
    /\ firings = <<>>
    /\ checks = {}
    /\ isProcessing = FALSE
    /\ ManagerIdle
    /\ StorageIdle
    /\ CallIdle
    /\ HookIdle

NextBatch ==
    \/ CheckStart
    \/ \E snap \in checks : CheckDispatch(snap)
    \/ \E f \in 1..MaxFirings : FiringStep(f)
    \/ \E f \in 1..MaxFirings : BatchDone(f)

SpecBatch == InitBatch /\ [][NextBatch]_vars

\* One enabled schedule of quantity up to MaxTabs fired by BackgroundManager;
\* s2 is disabled.
InitManagerSchedules ==
    {[s \in Schedules |->
        IF s = "s1"
        THEN [type |-> ty, enabled |-> TRUE, nextRun |-> 0, quantity |-> q,
              param |-> IF ty = "once" THEN 0 ELSE IF ty = "cron" THEN 2 ELSE 1]
        ELSE [OnceSchedule(0) EXCEPT !.enabled = FALSE]] :
     ty \in {"once", "interval", "cron"}, q \in 1..MaxTabs}

InitManager ==
    /\ now = 0
    /\ isRunning = TRUE
    /\ schedules \in InitManagerSchedules
    /\ processingQueue = {}
    /\ history = <<>>
    /\ firings = <<>>
    /\ checks = {}
    /\ isProcessing = FALSE
    /\ ManagerIdle
    /\ StorageIdle
    /\ CallIdle
    /\ HookIdle

NextManager ==
    \/ Advance
    \/ \E sid \in Schedules : ManagerExecute(sid)
    \/ OpenTrackedTab
    \/ ManagerUpdateNext
    \/ \E t \in TabIds : TimerFires(t)
    \/ \E t \in TabIds : CloseTabGet(t)
    \/ \E t \in TabIds : CloseTabRemove(t)
    \/ \E t \in TabIds : CloseTabUpdate(t)
    \/ \E t \in TabIds : ExternalClose(t)
    \/ \E t \in TabIds : HandleTabRemoved(t)
    \/ \E t \in TabIds : TabRemovedUpdate(t)

\* BackgroundManager: one firing, its tabs, the close timers and the browser.
SpecManager == InitManager /\ [][NextManager]_vars

NextTimeout ==
    \/ NextManager
    \/ \E t \in TabIds : HandleApiTracked(t)

\* BackgroundManager with the exchanges its tabs capture.
SpecTimeout == InitManager /\ [][NextTimeout]_vars

\* s1 runs every minute and is due at minute 1, s2 is a one-time schedule that
\* is due at once.
InitAlarmSchedules ==
    {[s \in Schedules |->
        IF s = "s1"
        THEN [type |-> "interval", enabled |-> TRUE, nextRun |-> 1, quantity |-> 1,
              param |-> 1]
        ELSE OnceSchedule(0)]}

InitAlarm ==
    /\ now = 0
    /\ isRunning = TRUE
    /\ schedules \in InitAlarmSchedules
    /\ processingQueue = {}
    /\ history = <<>>
    /\ firings = <<>>
    /\ checks = {}
    /\ isProcessing = FALSE
    /\ ManagerIdle
    /\ StorageIdle
    /\ CallIdle
    /\ HookIdle

NextAlarm ==
    \/ Advance
    \/ \E sid \in Schedules : CheckDueSchedules(sid)
    \/ \E sid \in Schedules : handleAlarm(sid)
    \/ \E e \in 1..MaxExecs : ExecOpenTab(e)
    \/ \E e \in 1..MaxExecs : ExecUpdateNext(e)

\* BackgroundManager: the interval check, the alarms and the executeSchedule
\* invocations they start.
SpecAlarm == InitAlarm /\ [][NextAlarm]_vars

NextClose ==
    \/ NextManager
    \/ \E t \in TabIds : CloseTabAgain(t)

\* BackgroundManager with closeTab called again after it has returned.
SpecClose == InitManager /\ [][NextClose]_vars

\* Two due interval schedules of quantity 1; s1 has lost its intervalMinutes.
InitInvalidSchedules ==
    {[s \in Schedules |->
        [type |-> "interval", enabled |-> TRUE, nextRun |-> 0, quantity |-> 1,
         param |-> IF s = "s1" THEN 0 ELSE 1]]}

InitInvalid ==
    /\ now = 0
    /\ isRunning = TRUE
    /\ schedules \in InitInvalidSchedules
    /\ processingQueue = {}
    /\ history = <<>>
    /\ firings = <<>>
    /\ checks = {}
    /\ isProcessing = FALSE
    /\ ManagerIdle
    /\ StorageIdle
    /\ CallIdle
    /\ HookIdle

NextInvalid ==
    \/ Advance
    \/ CheckStart
    \/ \E snap \in checks : CheckDispatch(snap)
    \/ \E f \in 1..MaxFirings : FiringStep(f)

\* The dispatcher ticking over a schedule with an invalid configuration.
SpecInvalid == InitInvalid /\ [][NextInvalid]_vars

\* The other components idle; one saver component and the sandboxes open.
InitStorage ==
    /\ now = 0
    /\ isRunning = TRUE
    /\ schedules \in InitSchedules
    /\ processingQueue = {}
    /\ history = <<>>
    /\ firings = <<>>
    /\ checks = {}
    /\ isProcessing = FALSE
    /\ ManagerIdle
    /\ saver \in Savers
    /\ stored = <<>>
    /\ saves = {}
    /\ CallIdle
    /\ HookIdle
    /\ finished = {}
    /\ nextId = 0
    /\ sandboxes = TabIds

NextStorage ==
    \/ \E t \in TabIds : SaveGet(t)
    \/ \E s \in saves : SaveSet(s)
    \/ \E t \in TabIds : SandboxClosed(t)

\* Exchanges of one schedule saved concurrently from several sandboxes.
SpecStorage == InitStorage /\ [][NextStorage]_vars

NextCap ==
    \/ \E t \in TabIds : SaveGetAlone(t)
    \/ \E s \in saves : SaveSet(s)

\* Exchanges saved one after the other until the list passes its cap.
SpecCap == InitStorage /\ [][NextCap]_vars

\* ==================================================================== claims

\* A firing that holds the claim of its schedule: from the claim up to the
\* finally block; a firing that threw out of HistoryRepository.create never
\* reaches finally.
Holding(rec) == rec.pc # "done"

\* A firing whose executeSchedule invocation has not ended.
Running(rec) == rec.pc \notin {"done", "thrown"}

\* C1: at most one firing of a schedule at a time.  No two firings of one
\* schedule hold its claim together, every firing that has not reached its
\* finally block is in processingQueue, and of two ExecutionRecords of one
\* schedule the earlier one belongs to a firing that is over and, when
\* finalized, ended no later than the later one started.
C1_AtMostOneFiring ==
    /\ \A f, g \in DOMAIN firings :
         (f # g /\ firings[f].sid = firings[g].sid)
            => ~(Holding(firings[f]) /\ Holding(firings[g]))
    /\ \A f \in DOMAIN firings :
         Holding(firings[f]) => firings[f].sid \in processingQueue
    /\ \A a, b \in DOMAIN history :
         (a < b /\ history[a].scheduleId = history[b].scheduleId)
            => /\ \A f \in DOMAIN firings :
                    firings[f].hid = a => ~Holding(firings[f])
               /\ history[a].endTime # NoTime
                    => history[a].endTime <= history[b].startTime

\* C1 witness: a schedule fired twice, the second firing started by a forced
\* execution or a tick after the first one ended, both records finalized.
C1_Witness ==
    \E a, b \in DOMAIN history :
        /\ a < b
        /\ history[a].scheduleId = history[b].scheduleId
        /\ history[a].endTime # NoTime
        /\ history[b].endTime # NoTime
        /\ history[b].startTime = MaxTime

\* C2: a once schedule that a successful firing has disabled is not fired
\* again: no firing of it holds the claim while it is disabled.
C2_DisabledOnceNeverFires ==
    \A f \in DOMAIN firings :
        (schedules[firings[f].sid].type = "once"
            /\ ~schedules[firings[f].sid].enabled)
          => ~Holding(firings[f])

\* C3: the success flag written when the business logic returned is true
\* exactly when a context succeeded or an exchange was captured.
C3_SuccessIffCaptured ==
    \A f \in DOMAIN firings :
        firings[f].pc = "next"
          => (history[firings[f].hid].success
                <=> (firings[f].results.ok > 0 \/ firings[f].captured))

\* C4: a firing that has ended, by returning or by throwing, has released its
\* claim: its schedule is in processingQueue only for another running firing.
C4_ClaimReleased ==
    \A f \in DOMAIN firings :
        (~Running(firings[f]) /\ firings[f].sid \in processingQueue)
          => \E g \in DOMAIN firings :
                g # f /\ firings[g].sid = firings[f].sid /\ Running(firings[g])

\* C5: a failure in one firing does not touch the others.  The dispatch step of
\* a tick starts a firing for every schedule of its list that is due and
\* unclaimed, whatever happened to earlier firings, and a step that takes a
\* firing into its catch block or out of executeSchedule by an exception
\* changes no other firing, no pending check and not isRunning.
C5_FailureIsolated ==
    [][/\ (checks # {} /\ checks' = {})
            => \A snap \in checks :
                 \A s \in dueSchedules(snap, processingQueue, now) :
                    /\ s \in processingQueue'
                    /\ \E f \in DOMAIN firings' :
                         /\ f \notin DOMAIN firings
                         /\ firings'[f].sid = s
                         /\ firings'[f].pc = "create"
       /\ \A f \in DOMAIN firings :
            (firings[f].pc \notin {"catch", "thrown"}
                /\ firings'[f].pc \in {"catch", "thrown"})
              => /\ \A g \in DOMAIN firings \ {f} : firings'[g] = firings[g]
                 /\ checks' = checks
                 /\ isRunning' = isRunning
                 /\ processingQueue' = processingQueue
                 /\ schedules' = schedules]_vars

\* C5 witness: two schedules were due in one tick, the firing of the first
\* threw, the firing of the second ran to its end and finalized its record.
C5_Witness ==
    /\ Len(firings) = 2
    /\ firings[1].sid # firings[2].sid
    /\ firings[1].pc = "thrown"
    /\ firings[2].pc = "done"
    /\ firings[2].hid \in DOMAIN history
    /\ history[firings[2].hid].endTime # NoTime
    /\ history[firings[2].hid].success

\* The batch sizes the claim states for quantity q: ceil(q/b) batches of b
\* contexts, the last one holding the remainder.
ExpectedBatches(q) ==
    LET b == Min(q, MAX_CONCURRENT_TABS)
        n == (q + b - 1) \div b
    IN  [k \in 1..n |-> IF k < n THEN b ELSE q - (n - 1) * b]

\* C6: a firing of quantity q > 1 starts its batches in the sizes of
\* ExpectedBatches(q), all of them by the time the business logic returns, and
\* no context of a batch is created while one of an earlier batch is pending.
C6_BatchesInOrder ==
    \A f \in DOMAIN firings :
        (firings[f].pc \in {"logic", "next"} /\ firings[f].quantity > 1)
          => LET rec == firings[f]
                 b == Min(rec.quantity, MAX_CONCURRENT_TABS)
                 expected == ExpectedBatches(rec.quantity)
             IN  /\ Len(rec.batches) <= Len(expected)
                 /\ \A k \in 1..Len(rec.batches) : rec.batches[k] = expected[k]
                 /\ rec.pc = "next" => rec.batches = expected
                 /\ \A j, k \in 1..rec.quantity :
                        (((j - 1) \div b) < ((k - 1) \div b) /\ rec.ctx[k] # "none")
                          => rec.ctx[j] = "done"

\* C6 witness: a firing of the largest quantity returned from its business
\* logic after a last batch smaller than the cap.
C6_Witness ==
    \E f \in DOMAIN firings :
        /\ firings[f].pc = "next"
        /\ firings[f].quantity = MaxQuantity
        /\ Len(firings[f].batches) > 1
        /\ firings[f].batches[Len(firings[f].batches)] < MAX_CONCURRENT_TABS
        /\ firings[f].results.ok + firings[f].results.timeout
              + firings[f].results.fail = MaxQuantity

\* C7: a tab is torn down once: at most one updateExecution call finalizes the
\* record for it, whether closeTab, handleTabRemoved or both run.
C7_FinalizedOnce == \A t \in TabIds : finalizeCalls[t] <= 1

\* A tab that was opened: its close timer was armed.
Opened(t) == t \in timers \/ closing[t].pc # "idle"

\* No handler is at work on tab t.
Quiet(t) ==
    /\ t \notin removed
    /\ t \notin DOMAIN removing
    /\ closing[t].pc \in {"idle", "done"}

\* C8: once a tab is gone and every handler for it has returned, its registry
\* entry is removed and the ExecutionRecord of its firing has an endTime.
C8_ClosedTabFinalized ==
    \A t \in TabIds :
        (Opened(t) /\ t \notin tabs /\ Quiet(t))
          => /\ t \notin DOMAIN activeTabs
             /\ \A h \in DOMAIN history : history[h].endTime # NoTime

\* C9: a record is finalized only when no tab of its firing is open.
C9_FinalizedWhenAllClosed ==
    \A h \in DOMAIN history :
        history[h].endTime # NoTime
          => \A t \in tabs :
                t \in DOMAIN activeTabs => activeTabs[t].historyId # h

\* C10: when a firing of a cron or interval schedule is over and its record
\* finalized, the schedule's nextRun lies strictly after the firing.
C10_NextRunAfterFiring ==
    \A f \in DOMAIN firings :
        (firings[f].pc = "done"
            /\ schedules[firings[f].sid].type # "once"
            /\ history[firings[f].hid].endTime # NoTime)
          => schedules[firings[f].sid].nextRun > history[firings[f].hid].endTime

\* C11: a firing is started by the tick's due check only: every firing that
\* has just been claimed was started for a schedule that was enabled and due,
\* in the list its starter read, at the instant of the claim.
C11_FiredOnlyWhenDue ==
    \A f \in DOMAIN firings :
        firings[f].pc = "create"
          => isScheduleDue(firings[f].schedule, firings[f].startTime)

\* C12: a schedule whose configuration makes calculateNextRun throw is not
\* fired: no firing of it reaches the business logic, where contexts open.
C12_InvalidNotFired ==
    \A f \in DOMAIN firings :
        firings[f].pc = "logic" => calculateNextRun(firings[f], now) # CalcError

\* C13: an exchange whose save call has returned is in the stored list (no
\* run of SpecStorage relays enough exchanges for the cap to evict one).
C13_SavedIsStored ==
    \A id \in finished : \E k \in 1..Len(stored) : stored[k] = id

ProgramIdle ==
    /\ isRunning = TRUE
    /\ schedules = [s \in Schedules |-> OnceSchedule(0)]
    /\ processingQueue = {}
    /\ history = <<>>
    /\ firings = <<>>
    /\ checks = {}
    /\ isProcessing = FALSE
    /\ ManagerIdle
    /\ StorageIdle
    /\ HookIdle

InitUrl ==
    /\ ProgramIdle
    /\ now = 0
    /\ arg \in Urls
    /\ results = <<>>

NextUrl ==
    \/ CallIsTrackingUrl
    \/ CallShouldTrackUrl
    \/ CallTrackerShouldTrackUrl
    \/ CallSchedulerShouldTrackUrl
    \/ CallInterceptorMatch
    \/ CallPathShouldTrackUrl

\* Every URL match predicate of the source called on one URL.
SpecUrl == InitUrl /\ [][NextUrl]_vars

\* Called(names): every helper of names has returned.
Called(names) == names \subseteq DOMAIN results

\* C15: the webRequest hook (BackgroundManager.shouldTrackUrl) and the
\* page-script hook (the main-world interceptor's test, RequestTracker's
\* shouldTrackUrl, startInterception's shouldTrackUrl) answer alike on
\* every URL.
C15_HooksAgree ==
    \A other \in {"interceptorMatch", "trackerShouldTrackUrl", "pathShouldTrackUrl"} :
        Called({"shouldTrackUrl", other}) =>
            results["shouldTrackUrl"] = results[other]

\* The configured pattern or an alternate pattern occurs in url.
ContainsPattern(url) ==
    \E pattern \in {TRACKING_STOCK_LINK} \cup ALTERNATIVE_TRACKING_PATTERNS :
        includes(url, pattern)

\* C16: each URL match predicate is true exactly when the URL contains the
\* configured pattern or an alternate pattern (a pattern is configured, so
\* the API-path fallback does not apply).
C16_MatchIffContains ==
    \A name \in {"isTrackingUrl", "trackerShouldTrackUrl", "schedulerShouldTrackUrl"} :
        Called({name}) => (results[name] <=> ContainsPattern(arg))

InitExtract ==
    /\ ProgramIdle
    /\ now = 0
    /\ arg \in Bodies
    /\ results = <<>>

NextExtract ==
    \/ CallExtractModels
    \/ CallExtractModelsFromResponse

\* Both extraction functions called on one parsed body.
SpecExtract == InitExtract /\ [][NextExtract]_vars

\* The value at key k of object x, if x is an object that has the key.
Has(x, k) == x.t = "object" /\ k \in DOMAIN x.v

\* data.item.models is present in body: each segment names a key of an object.
HasModels(body) ==
    /\ Has(body, "data")
    /\ Has(body.v["data"], "item")
    /\ Has(body.v["data"].v["item"], "models")

Example1 == Obj1("data", Obj1("item", Obj1("models", Array(<<Number(1), Number(2)>>))))
Example2 == Obj1("data", Object(<<>>))

\* C17: both extraction functions return the value at data.item.models when
\* every segment is present, and null as soon as a segment is missing or the
\* value reached is not an object; {data:{item:{models:[1,2]}}} yields [1,2]
\* and {data:{}} yields null.
C17_ExtractWalksPath ==
    \A name \in {"extractModels", "extractModelsFromResponse"} :
        Called({name}) =>
            /\ HasModels(arg) => results[name] = arg.v["data"].v["item"].v["models"]
            /\ ~HasModels(arg) => results[name] = Null
            /\ arg = Example1 => results[name] = Array(<<Number(1), Number(2)>>)
            /\ arg = Example2 => results[name] = Null

C17_Witness ==
    /\ arg = Example1
    /\ Called({"extractModels", "extractModelsFromResponse"})
    /\ results["extractModels"] = Array(<<Number(1), Number(2)>>)
    /\ results["extractModelsFromResponse"] = Array(<<Number(1), Number(2)>>)

\* The missing-segment case of C17 happens: {data:{}} yields null.
C17_WitnessMissing ==
    /\ arg = Example2
    /\ Called({"extractModels", "extractModelsFromResponse"})
    /\ results["extractModels"] = Null

InitClock ==
    /\ ProgramIdle
    /\ now \in 0..MaxClock
    /\ arg \in ClockSchedules
    /\ results = <<>>

NextClock ==
    \/ CallIsScheduleDue
    \/ CallCalculateNextRun

\* The Schedule Clock called on one schedule at one instant.
SpecClock == InitClock /\ [][NextClock]_vars

\* C18: isScheduleDue returns true if and only if the schedule is enabled and
\* its nextRun is at or before now, and the call changes no state: neither
\* the clock, the schedule it was given, nor the stored schedules or history.
C18_DueIffEnabledAndReached ==
    /\ [](Called({"isScheduleDue"}) =>
            (results["isScheduleDue"] <=> (arg.enabled /\ arg.nextRun <= now)))
    /\ [][CallIsScheduleDue =>
            UNCHANGED <<now, arg, schedules, history, processingQueue>>]_vars

C18_Witness ==
    /\ Called({"isScheduleDue"})
    /\ arg.enabled
    /\ arg.nextRun = now
    /\ results["isScheduleDue"]

\* C19: for an interval schedule, calculateNextRun returns exactly now plus
\* intervalMinutes, which is never earlier than now (a schedule without
\* intervalMinutes makes the call throw: it returns no time at all).
C19_IntervalAddsMinutes ==
    (Called({"calculateNextRun"}) /\ arg.type = "interval" /\ arg.param # 0) =>
        /\ results["calculateNextRun"] = now + arg.param
        /\ results["calculateNextRun"] >= now

C19_Witness ==
    /\ Called({"calculateNextRun"})
    /\ arg.type = "interval"
    /\ arg.param = MaxInterval
    /\ now = MaxClock
    /\ results["calculateNextRun"] = MaxClock + MaxInterval

\* closeTab(t), started by the close timer, writes the outcome in this step.
TimerOutcomeWritten(t) ==
    /\ closing[t].pc = "update"
    /\ closing'[t].pc = "done"
    /\ finalizeCalls'[t] = finalizeCalls[t] + 1

\* C20: when the close timer closes a tab, the outcome written is success if
\* an exchange of the execution had been captured by then, and failure
\* otherwise.
C20_TimeoutOutcome ==
    [][\A t \in TabIds :
          TimerOutcomeWritten(t) =>
              (history'[closing[t].historyId].success
                  <=> history[closing[t].historyId].tracked)]_vars

\* ------------------------------------------------------------ hybrid manager

InitHybrid ==
    /\ now = 0
    /\ isRunning = TRUE
    /\ schedules = [s \in Schedules |-> OnceSchedule(0)]
    /\ processingQueue = {}
    /\ history = <<>>
    /\ firings = <<>>
    /\ checks = {}
    /\ isProcessing = FALSE
    /\ ManagerIdle
    /\ saver \in {"tracker", "bridge"}
    /\ stored = <<>>
    /\ saves = {}
    /\ finished = {}
    /\ nextId = 0
    /\ sandboxes = {}
    /\ CallIdle
    /\ HookIdle

NextHybrid ==
    \/ HybridTick
    \/ \E t \in HybridTabIds : HybridOpenTab(t)
    \/ \E t \in HybridTabIds : InjectSettingsDone(t)
    \/ \E t \in HybridTabIds : InjectWaitDone(t)
    \/ \E t \in HybridTabIds : InjectMainDone(t)
    \/ \E t \in HybridTabIds : TabReloaded(t)
    \/ \E t \in HybridTabIds : Heartbeat(t)

\* HybridBackgroundManager: one tab, its injections, heartbeats and the clock.
SpecHybrid == InitHybrid /\ [][NextHybrid]_vars

\* C21: the status getTabStatus reports for a tab never goes from Ready or
\* Tracking back to Loading or Injecting.
C21_StatusMovesForward ==
    [][\A t \in DOMAIN hybridTabs :
          getTabStatus(hybridTabs[t], now) \in {"ready", "tracking"} =>
              getTabStatus(hybridTabs'[t], now') \notin {"loading", "injecting"}]_vars

\* ------------------------------------------------------- injection attempts

InitInjection ==
    /\ ProgramIdle
    /\ CallIdle
    /\ now = 0

NextInjection ==
    \/ \E t \in TabIds : SetupContentScriptInjection(t)
    \/ \E t \in TabIds, k \in {2, 3} : InjectTimerFires(t, k)
    \/ \E t \in TabIds : TabListener(t)
    \/ \E t \in TabIds : ListenerRemoved(t)

\* setupContentScriptInjection for the tabs of a firing.
SpecInjection == InitInjection /\ [][NextInjection]_vars

\* C22: no tab gets more than 3 injection attempts.
C22_AtMostThreeAttempts ==
    \A t \in DOMAIN injections : injections[t].attempts <= 3

\* Invocation e of executeSchedule has created its record and has not yet
\* updated nextRun or disabled the schedule.
Executing(e) == execs[e].pc \in {"open", "next"}

\* C23: executeSchedule is never started for a schedule while an earlier
\* executeSchedule for it has not yet updated nextRun or disabled it.
C23_OneFiringPerDueTime ==
    \A d, e \in DOMAIN execs :
        (d # e /\ Executing(d) /\ Executing(e)) => execs[d].sid # execs[e].sid

\* The number of outcomes in the results of a firing.
Total(r) == r.ok + r.timeout + r.fail

\* C24: a context that fails leaves its siblings as they are and the business
\* logic running; while the batches run the results hold one outcome for each
\* context of the earlier batches, after the last batch one for each of the
\* quantity requested contexts, and every failed context is pushed as failed.
C24_BatchSurvivesFailure ==
    /\ [](\A f \in DOMAIN firings :
            LET rec == firings[f]
            IN  /\ rec.pc = "logic" =>
                      /\ Total(rec.results) = rec.i
                      /\ \A j \in BatchRange(rec.i, rec.quantity) :
                            rec.ctx[j] \in Pending \cup Settled
                /\ rec.pc = "next" => Total(rec.results) = rec.quantity)
    /\ [][\A f \in DOMAIN firings :
            (firings[f].pc = "logic" /\ firings'[f].pc \in {"logic", "next"}) =>
                LET old == firings[f]
                    new == firings'[f]
                IN  /\ \A j \in DOMAIN old.ctx :
                          (old.ctx[j] # "fail" /\ new.ctx[j] = "fail") =>
                              /\ new.pc = "logic"
                              /\ \A k \in DOMAIN old.ctx \ {j} : new.ctx[k] = old.ctx[k]
                    /\ new.results.fail = old.results.fail +
                          Cardinality({j \in DOMAIN old.ctx :
                                          old.ctx[j] = "fail" /\ new.ctx[j] = "done"})]_vars

\* C24 witness: a firing of several batches finished its business logic with
\* failed and successful contexts, every one of them in the results.
C24_Witness ==
    \E f \in DOMAIN firings :
        /\ firings[f].pc = "next"
        /\ Len(firings[f].batches) > 1
        /\ firings[f].results.fail >= 2
        /\ firings[f].results.ok >= 1
        /\ Total(firings[f].results) = firings[f].quantity

\* The tabs a firing has open: createBackgroundTabWithTracking resolves with the
\* tab left open, on success and on timeout alike, and nothing in the firing
\* calls chrome.tabs.remove; so every context that got a tab still has it.
OpenTabs(rec) ==
    rec.results.ok + rec.results.timeout
      + Cardinality({j \in BatchRange(rec.i, rec.quantity) :
                        rec.ctx[j] \in {"waiting", "ok", "timeout"}})

\* C25: a firing never has more than MAX_CONCURRENT_TABS tabs open.
C25_OpenTabsCapped ==
    \A f \in DOMAIN firings :
        firings[f].pc \in {"logic", "next"} =>
            OpenTabs(firings[f]) <= MAX_CONCURRENT_TABS

\* C26: once closeTab(t) has returned, on whichever path, t is not in
\* activeTabs, and a further closeTab(t) returns at its first test: it starts
\* no work, so the registry and the ExecutionRecords stay as they are.
C26_CloseTabIdempotent ==
    /\ [](\A t \in TabIds : closing[t].pc = "done" => t \notin DOMAIN activeTabs)
    /\ [][\A t \in TabIds :
            closing[t].pc = "done" => closing'[t].pc = "done"]_vars

\* C26 witness: closeTab returned for a tab it closed itself and finalized.
C26_Witness ==
    \E t \in TabIds :
        /\ closing[t].pc = "done"
        /\ finalizeCalls[t] = 1
        /\ t \notin tabs
        /\ t \notin DOMAIN activeTabs

\* C26 witness of the error path: closeTab returned for a tab that was gone
\* before it could remove it.
C26_WitnessAlreadyClosed ==
    \E t \in TabIds :
        /\ closing[t].pc = "done"
        /\ finalizeCalls[t] = 0
        /\ Opened(t)
        /\ t \notin DOMAIN activeTabs

\* ---------------------------------------------------------------------
\* BackgroundScheduler.backgroundTabs (popup.tsx): the registry of the
\* tabs the firings opened, and its manual close operations.
\* ---------------------------------------------------------------------

MaxWorkerTabs == 3

WorkerFrame ==
    UNCHANGED <<now, schedules, history, schedulerVars, managerVars, storageVars,
                callVars, hybridTabs, injections, alarms, execs,
                pendingRequests, webRequests, fetches, lateVars>>

\* Map.set(key, value): one value per key.
mapSet(map, key, value) ==
    [k \in DOMAIN map \cup {key} |-> IF k = key THEN value ELSE map[k]]

\* getBackgroundTabs(): one {scheduleId, tabId} per entry of the map.
getBackgroundTabs ==
    {[scheduleId |-> sid, tabId |-> backgroundTabs[sid]] : sid \in DOMAIN backgroundTabs}

\* createBackgroundTabWithTracking after chrome.tabs.create resolved: the
\* new tab gets the next id and is registered under the schedule's id.
CreateBackgroundTab(sid) ==
    /\ Len(workerTabs) < MaxWorkerTabs
    /\ LET tabId == Len(workerTabs) + 1 IN
           /\ workerTabs' = Append(workerTabs,
                                   [scheduleId |-> sid, open |-> TRUE, closing |-> "no"])
           /\ backgroundTabs' = mapSet(backgroundTabs, sid, tabId)
    /\ WorkerFrame

\* The user closes a tab in the browser; nothing listens in this component.
WorkerTabClosed(t) ==
    /\ workerTabs[t].open
    /\ workerTabs' = [workerTabs EXCEPT ![t].open = FALSE]
    /\ UNCHANGED backgroundTabs
    /\ WorkerFrame

\* closeScheduleTabs(scheduleId) up to its await of chrome.tabs.remove(tabId).
closeScheduleTabs(sid) ==
    /\ sid \in DOMAIN backgroundTabs
    /\ workerTabs[backgroundTabs[sid]].closing = "no"
    /\ workerTabs' = [workerTabs EXCEPT ![backgroundTabs[sid]].closing = "schedule"]
    /\ UNCHANGED backgroundTabs
    /\ WorkerFrame

\* chrome.tabs.remove(tabId) settles: on success the schedule's entry is
\* deleted; a rejection (the tab is gone) is caught and nothing is deleted.
CloseScheduleTabsDone(t) ==
    /\ workerTabs[t].closing = "schedule"
    /\ workerTabs' = [workerTabs EXCEPT ![t].closing = "no", ![t].open = FALSE]
    /\ backgroundTabs' = IF workerTabs[t].open
                             THEN deleteEntry(backgroundTabs, workerTabs[t].scheduleId)
                             ELSE backgroundTabs
    /\ WorkerFrame

\* closeAllBackgroundTabs() up to its await of chrome.tabs.remove(tabIds).
closeAllBackgroundTabs ==
    /\ DOMAIN backgroundTabs # {}
    /\ \A t \in DOMAIN workerTabs : workerTabs[t].closing = "no"
    /\ workerTabs' = [t \in DOMAIN workerTabs |->
                         IF \E sid \in DOMAIN backgroundTabs : backgroundTabs[sid] = t
                             THEN [workerTabs[t] EXCEPT !.closing = "all"]
                             ELSE workerTabs[t]]
    /\ UNCHANGED backgroundTabs
    /\ WorkerFrame

\* chrome.tabs.remove(tabIds) settles: on success the map is cleared; with
\* a tab of the list gone it rejects, having closed the others or none.
CloseAllBackgroundTabsDone ==
    LET listed == {t \in DOMAIN workerTabs : workerTabs[t].closing = "all"} IN
    /\ listed # {}
    /\ IF \A t \in listed : workerTabs[t].open
           THEN /\ workerTabs' = [t \in DOMAIN workerTabs |->
                                     IF t \in listed
                                         THEN [workerTabs[t] EXCEPT !.closing = "no", !.open = FALSE]
                                         ELSE workerTabs[t]]
                /\ backgroundTabs' = <<>>
           ELSE /\ \E closed \in BOOLEAN :
                       workerTabs' = [t \in DOMAIN workerTabs |->
                                         IF t \in listed
                                             THEN [workerTabs[t] EXCEPT
                                                       !.closing = "no",
                                                       !.open = workerTabs[t].open /\ ~closed]
                                             ELSE workerTabs[t]]
                /\ UNCHANGED backgroundTabs
    /\ WorkerFrame

InitWorker ==
    /\ ProgramIdle
    /\ CallIdle
    /\ now = 0

NextWorker ==
    \/ \E sid \in Schedules : CreateBackgroundTab(sid)
    \/ \E t \in DOMAIN workerTabs : WorkerTabClosed(t)
    \/ \E sid \in Schedules : closeScheduleTabs(sid)
    \/ \E t \in DOMAIN workerTabs : CloseScheduleTabsDone(t)
    \/ closeAllBackgroundTabs
    \/ CloseAllBackgroundTabsDone

SpecWorker == InitWorker /\ [][NextWorker]_vars

\* C27: every tab a firing opened and that is still open is listed by
\* getBackgroundTabs, and when closeScheduleTabs deletes a schedule's entry
\* no tab of that schedule is left open.
C27_CloseScheduleTabsClosesAll ==
    /\ [](\A t \in DOMAIN workerTabs :
             workerTabs[t].open =>
                 [scheduleId |-> workerTabs[t].scheduleId, tabId |-> t] \in getBackgroundTabs)
    /\ [][\A t \in DOMAIN workerTabs :
             (workerTabs[t].closing = "schedule" /\ workerTabs'[t].closing = "no"
                 /\ workerTabs[t].scheduleId \notin DOMAIN backgroundTabs') =>
                 \A u \in DOMAIN workerTabs' :
                     workerTabs'[u].scheduleId = workerTabs[t].scheduleId =>
                         ~workerTabs'[u].open]_vars

\* Two tabs of one schedule are open and only the later one is listed.
C27_Unlisted ==
    \E t, u \in DOMAIN workerTabs :
        /\ t # u
        /\ workerTabs[t].open /\ workerTabs[u].open
        /\ workerTabs[t].scheduleId = workerTabs[u].scheduleId
        /\ Cardinality(getBackgroundTabs) = 1

\* ---------------------------------------------------------------------
\* The patched window.fetch of the three page hooks:
\*   "main"    main-world-interceptor.ts 138-247
\*   "bridge"  part_011 83-150 (setupFetchInterceptor, handleTrackedFetch)
\*   "tracker" request-tracker.ts 479-588 (interceptFetch)
\* A call is a record: original counts the calls of the original fetch,
\* settled is the outcome of the first of them, page is what the caller's
\* promise settled with, captured says whether an exchange was relayed.
\* ---------------------------------------------------------------------

MaxFetches == 2

FetchHooks == {"main", "bridge", "tracker"}

FetchFrame ==
    UNCHANGED <<now, schedules, history, schedulerVars, managerVars, storageVars,
                callVars, hybridTabs, injections, alarms, execs,
                backgroundTabs, workerTabs, pendingRequests, webRequests, lateVars>>

NewFetch(hook, matches, pc, original) ==
    [hook |-> hook, matches |-> matches, pc |-> pc, original |-> original,
     settled |-> "none", page |-> "none", captured |-> FALSE]

Outcome(ok) == IF ok THEN "response" ELSE "error"

\* The page calls fetch(input, init). A URL that does not match goes
\* straight to the original fetch. For a matching URL the request data is
\* captured first; in the bridge and the tracker that runs inside the try
\* block, so when it throws the catch block calls the original fetch.
PageFetch(hook, matches, requestCaptured) ==
    /\ Len(fetches) < MaxFetches
    /\ requestCaptured \/ (matches /\ hook # "main")
    /\ fetches' = Append(fetches,
           IF ~matches THEN NewFetch(hook, matches, "passthrough", 1)
           ELSE IF requestCaptured THEN NewFetch(hook, matches, "request", 1)
           ELSE NewFetch(hook, matches, "retry", 1))
    /\ FetchFrame

\* A call of the original fetch settles.
\*   passthrough, retry: its promise is the one returned to the page.
\*   request, resolved: the hook goes on to read the response.
\*   request, rejected: main posts the error and rethrows it; the bridge
\*     and the tracker catch it and call the original fetch again.
OriginalFetchSettles(c, ok) ==
    LET f == fetches[c] IN
    /\ f.pc \in {"passthrough", "request", "retry"}
    /\ fetches' = [fetches EXCEPT ![c] =
           LET g == [f EXCEPT !.settled = IF f.settled = "none" THEN Outcome(ok) ELSE @] IN
           CASE f.pc \in {"passthrough", "retry"} ->
                    [g EXCEPT !.pc = "done", !.page = Outcome(ok)]
             [] f.pc = "request" /\ ok ->
                    [g EXCEPT !.pc = "capture"]
             [] f.pc = "request" /\ ~ok /\ f.hook = "main" ->
                    [g EXCEPT !.pc = "done", !.page = "error", !.captured = TRUE]
             [] OTHER ->
                    [g EXCEPT !.pc = "retry", !.original = @ + 1]]
    /\ FetchFrame

\* Reading the body of the cloned response settles. The bridge and the
\* tracker catch a failed read and relay a placeholder body; main has the
\* read inside the try block of the request, so its catch posts an error
\* exchange and throws the read error to the page.
CaptureSettles(c, ok) ==
    LET f == fetches[c] IN
    /\ f.pc = "capture"
    /\ fetches' = [fetches EXCEPT ![c] =
           IF ok \/ f.hook # "main"
               THEN [f EXCEPT !.pc = "done", !.page = "response", !.captured = TRUE]
               ELSE [f EXCEPT !.pc = "done", !.page = "captureError", !.captured = TRUE]]
    /\ FetchFrame

InitFetch ==
    /\ ProgramIdle
    /\ CallIdle
    /\ now = 0

NextFetch ==
    \/ \E hook \in FetchHooks, matches, requestCaptured \in BOOLEAN :
           PageFetch(hook, matches, requestCaptured)
    \/ \E c \in DOMAIN fetches, ok \in BOOLEAN : OriginalFetchSettles(c, ok)
    \/ \E c \in DOMAIN fetches, ok \in BOOLEAN : CaptureSettles(c, ok)

SpecFetch == InitFetch /\ [][NextFetch]_vars

\* C28: a finished call through the patched fetch has called the original
\* fetch exactly once and has handed that call's response or error to the
\* page; a call whose URL does not match relays no exchange.
C28_FetchPassesThrough ==
    \A c \in DOMAIN fetches :
        /\ fetches[c].original <= 1
        /\ fetches[c].pc = "done" =>
               /\ fetches[c].original = 1
               /\ fetches[c].page = fetches[c].settled
        /\ ~fetches[c].matches => ~fetches[c].captured

\* A matching request failed and the hook has called the original fetch again.
C28_FetchedTwice ==
    \E c \in DOMAIN fetches :
        /\ fetches[c].matches
        /\ fetches[c].settled = "error"
        /\ fetches[c].original = 2

\* The request succeeded, reading the body failed, and the page got the
\* read error in place of the response.
C28_CaptureErrorThrown ==
    \E c \in DOMAIN fetches :
        /\ fetches[c].pc = "done"
        /\ fetches[c].settled = "response"
        /\ fetches[c].page = "captureError"

\* ---------------------------------------------------------------------
\* BackgroundManager.setupWebRequestListener (background.ts 608-770): the
\* three chrome.webRequest listeners and their pendingRequests map.
\* ---------------------------------------------------------------------

MaxWebRequests == 1
MaxExchanges == 2

\* details.tabId is -1 for a request that belongs to no tab.
NoTab == 0 - 1
WebTabIds == TabIds \cup {NoTab}
RequestIds == 1..MaxWebRequests

\* details.url: one URL the listeners track and one they do not.
WebUrls ==
    {CHOOSE url \in Urls : shouldTrackUrl(url),
     CHOOSE url \in Urls : ~shouldTrackUrl(url)}

\* A key that leaves the tab id out.
requestKeyOfRequest(tabId, requestId) == <<0, requestId>>

\* `${tabId}-${details.requestId}`: tab ids are numbers and request ids are
\* digit strings, so the key determines both.
requestKey(tabId, requestId) == <<tabId, requestId>>

\* if (tabId && this.activeTabs.has(tabId)) ... if (this.shouldTrackUrl(url))
Watched(tabId, url) ==
    /\ tabId # 0
    /\ tabId \in DOMAIN activeTabs
    /\ shouldTrackUrl(url)

WebFrame ==
    UNCHANGED <<now, schedules, schedulerVars, managerVars, storageVars,
                callVars, hybridTabs, injections, alarms, execs,
                backgroundTabs, workerTabs, fetches, lateVars>>

\* chrome.webRequest.onBeforeSendHeaders
onBeforeSendHeaders(tabId, requestId, url) ==
    /\ pendingRequests' =
           IF Watched(tabId, url)
               THEN mapSet(pendingRequests, requestKey(tabId, requestId),
                           [tabId |-> tabId, requestId |-> requestId, hasBody |-> FALSE])
               ELSE pendingRequests
    /\ UNCHANGED <<history, webRequests>>
    /\ WebFrame

\* chrome.webRequest.onBeforeRequest
onBeforeRequest(tabId, requestId, url) ==
    /\ pendingRequests' =
           IF Watched(tabId, url) /\ requestKey(tabId, requestId) \in DOMAIN pendingRequests
               THEN [pendingRequests EXCEPT ![requestKey(tabId, requestId)].hasBody = TRUE]
               ELSE pendingRequests
    /\ UNCHANGED <<history, webRequests>>
    /\ WebFrame

\* chrome.webRequest.onHeadersReceived, with the handleWebRequestTracked
\* call it makes: the registry entry is read before the first await, and
\* HistoryRepository.updateExecution may fail (caught and logged).
onHeadersReceived(tabId, requestId, url) ==
    /\ Len(webRequests) < MaxExchanges
    /\ LET key == requestKey(tabId, requestId) IN
           IF Watched(tabId, url) /\ key \in DOMAIN pendingRequests
               THEN /\ webRequests' = Append(webRequests,
                           [tabId |-> tabId, requestId |-> requestId,
                            pending |-> pendingRequests[key]])
                    /\ pendingRequests' = deleteEntry(pendingRequests, key)
                    /\ \E ok \in BOOLEAN :
                           history' = IF ok
                                          THEN [history EXCEPT ![activeTabs[tabId].historyId].tracked = TRUE]
                                          ELSE history
               ELSE UNCHANGED <<pendingRequests, webRequests, history>>
    /\ WebFrame

\* The setInterval callback: the pending requests older than 30 seconds,
\* here any of them, are deleted.
CleanPendingRequests ==
    /\ \E old \in SUBSET DOMAIN pendingRequests :
           /\ old # {}
           /\ pendingRequests' = [k \in DOMAIN pendingRequests \ old |-> pendingRequests[k]]
    /\ UNCHANGED <<history, webRequests>>
    /\ WebFrame

NextWeb ==
    \/ \E sid \in Schedules : ManagerExecute(sid)
    \/ OpenTrackedTab
    \/ ManagerUpdateNext
    \/ \E t \in TabIds : ExternalClose(t)
    \/ \E t \in TabIds : HandleTabRemoved(t)
    \/ \E t \in TabIds : TabRemovedUpdate(t)
    \/ \E tabId \in WebTabIds, requestId \in RequestIds, url \in WebUrls :
           onBeforeSendHeaders(tabId, requestId, url)
    \/ \E tabId \in WebTabIds, requestId \in RequestIds, url \in WebUrls :
           onBeforeRequest(tabId, requestId, url)
    \/ \E tabId \in WebTabIds, requestId \in RequestIds, url \in WebUrls :
           onHeadersReceived(tabId, requestId, url)
    \/ CleanPendingRequests

\* One enabled schedule that opens a tab for every tab id.
InitWeb ==
    /\ InitManager
    /\ schedules["s1"].type = "once"
    /\ schedules["s1"].quantity = MaxTabs

SpecWeb == InitWeb /\ [][NextWeb]_vars

optional(x, k) == IF in(k, x) THEN x.v[k] ELSE Null

\* Object.entries(x): the keys of an object, the indices of an array.
entryKeys(x) == IF x.t \in {"object", "array"} THEN DOMAIN x.v ELSE {}

\* key === 'models' && Array.isArray(value), and with nonEmpty also
\* value.length > 0
modelsEntry(x, k, nonEmpty) ==
    /\ x.t = "object"
    /\ k = "models"
    /\ x.v[k].t = "array"
    /\ nonEmpty => Len(x.v[k].v) > 0

\* searchForModels(obj, depth). The loop returns at the first entry that is
\* a models array or under which one is found; which entry is first is the
\* key order of the body, and any entry that yields one can be first.
RECURSIVE searchForModels(_, _, _)
searchForModels(obj, depth, nonEmpty) ==
    IF depth > 3 \/ falsy(obj) \/ ~typeofObject(obj) THEN Null
    ELSE LET under(k) ==
                 IF modelsEntry(obj, k, nonEmpty) THEN obj.v[k]
                 ELSE IF typeofObject(obj.v[k]) /\ obj.v[k].t # "null"
                      THEN searchForModels(obj.v[k], depth + 1, nonEmpty)
                      ELSE Null
             hits == {k \in entryKeys(obj) : ~falsy(under(k))}
         IN  IF hits = {} THEN Null ELSE under(CHOOSE k \in hits : TRUE)

\* The primary path, the alternative paths and the deep search.
findModels(data, nonEmpty) ==
    IF falsy(data) \/ ~typeofObject(data) THEN Null
    ELSE IF ~falsy(optional(optional(optional(data, "data"), "item"), "models"))
         THEN data.v["data"].v["item"].v["models"]
    ELSE IF ~falsy(optional(optional(data, "item"), "models"))
         THEN data.v["item"].v["models"]
    ELSE IF ~falsy(optional(data, "models")) THEN data.v["models"]
    ELSE searchForModels(data, 0, nonEmpty)

\* RequestTracker.findModelsInData
findModelsInData(data) == findModels(data, TRUE)

\* extractModelsData of part_011
extractModelsData(responseData) == findModels(responseData, FALSE)

Example3 == Obj1("models", Array(<<Number(1)>>))

\* The parsed bodies of the models search.
SearchBodies ==
    Bodies \cup {Example3,
                 Obj1("result", Obj1("models", Array(<<Number(1)>>))),
                 Obj1("result", Obj1("models", Array(<<>>))),
                 Array(<<Obj1("models", Array(<<Number(1)>>))>>)}

CallFindModelsInData == Return("findModelsInData", findModelsInData(arg))
CallExtractModelsData == Return("extractModelsData", extractModelsData(arg))

InitSearch ==
    /\ ProgramIdle
    /\ now = 0
    /\ arg \in SearchBodies
    /\ results = <<>>

NextSearch ==
    \/ CallFindModelsInData
    \/ CallExtractModelsData

\* Both models searches called on one parsed body.
SpecSearch == InitSearch /\ [][NextSearch]_vars

\* C30: findModelsInData and extractModelsData return a payload only for a
\* body in which every segment of data.item.models is present; {data:{}}
\* and {models:[1]} yield none.
C30_PayloadOnlyOnFullPath ==
    \A name \in {"findModelsInData", "extractModelsData"} :
        Called({name}) =>
            /\ ~HasModels(arg) => results[name] = Null
            /\ arg \in {Example2, Example3} => results[name] = Null

\* {models:[1]} has no data segment and yields the payload [1].
C30_TopLevelModels ==
    /\ arg = Example3
    /\ Called({"findModelsInData", "extractModelsData"})
    /\ results["findModelsInData"] = Array(<<Number(1)>>)
    /\ results["extractModelsData"] = Array(<<Number(1)>>)

\* ---------------------------------------------------------------------
\* Exchange ids: the main-world interceptor of each tab numbers its
\* exchanges (main-world-interceptor.ts 41, 66-70, 177-180), the content
\* script of the tab saves them under the schedule's key by id
\* (request-tracker.ts 161-214, 270-296).  The tabs are those of one firing.
\* ---------------------------------------------------------------------

MaxIntercepts == 2
MaxPolls == 101
TRACKER_MAX_ATTEMPTS == 50
ISOLATED_MAX_ATTEMPTS == 100

IdFrame ==
    UNCHANGED <<schedules, history, schedulerVars, managerVars, storageVars,
                callVars, hybridTabs, injections, alarms, execs, pageVars, stopping,
                settingsPoll>>

\* `xhr_${Date.now()}_${requestCounter}` and `fetch_${Date.now()}_${requestCounter}`
requestId(kind, t, counter) == <<kind, t, counter>>

\* Date.now() moves on.
IdTick ==
    /\ now < MaxClock
    /\ now' = now + 1
    /\ UNCHANGED <<requestCounter, intercepted, savedRequests>>
    /\ IdFrame

\* The page of tab t opens a matching XHR or calls fetch on a matching URL:
\* requestCounter++, the id is built, and the exchange is posted to the
\* isolated world (n numbers the exchanges of the tab).
Intercept(t, kind) ==
    /\ requestCounter[t] < MaxIntercepts
    /\ requestCounter' = [requestCounter EXCEPT ![t] = @ + 1]
    /\ intercepted' = intercepted \cup
           {[tab |-> t, n |-> requestCounter[t] + 1, saved |-> FALSE,
             id |-> requestId(kind, now, requestCounter[t] + 1)]}
    /\ UNCHANGED <<now, savedRequests>>
    /\ IdFrame

\* existingData after saveToStorage's update-or-add of request.
saveById(existingData, request) ==
    LET existingIndex ==
            findIndex([k \in 1..Len(existingData) |-> existingData[k].id], request.id)
    IN  spliceOldest(IF existingIndex > 0
                         THEN [existingData EXCEPT ![existingIndex] = request]
                         ELSE Append(existingData, request),
                     TRACKER_CAP)

\* handleInterceptedRequest for a posted exchange, with its saveToStorage.
HandleIntercepted(x) ==
    /\ x \in intercepted
    /\ ~x.saved
    /\ savedRequests' = saveById(savedRequests, [id |-> x.id, tab |-> x.tab, n |-> x.n])
    /\ intercepted' = (intercepted \ {x}) \cup {[x EXCEPT !.saved = TRUE]}
    /\ UNCHANGED <<now, requestCounter>>
    /\ IdFrame

\* The tabs of one firing are open and their interceptors installed.
InitIds ==
    /\ now = 0
    /\ isRunning = TRUE
    /\ schedules = [s \in Schedules |-> OnceSchedule(0)]
    /\ processingQueue = {}
    /\ history = <<>>
    /\ firings = <<>>
    /\ checks = {}
    /\ isProcessing = FALSE
    /\ ManagerIdle
    /\ StorageIdle
    /\ CallIdle
    /\ hybridTabs = <<>>
    /\ injections = <<>>
    /\ alarms = <<>>
    /\ execs = <<>>
    /\ PageIdle
    /\ requestCounter = [t \in TabIds |-> 0]
    /\ intercepted = {}
    /\ savedRequests = <<>>
    /\ stopping = FALSE
    /\ settingsPoll = NoPoll

NextIds ==
    \/ IdTick
    \/ \E t \in TabIds, kind \in {"xhr", "fetch"} : Intercept(t, kind)
    \/ \E x \in intercepted : HandleIntercepted(x)

SpecIds == InitIds /\ [][NextIds]_vars

\* C31: two different exchanges of one schedule never have the same id, and
\* every exchange that was saved is in the schedule's stored list.
C31_ExchangeIdsUnique ==
    /\ \A x, y \in intercepted :
           x.id = y.id => (x.tab = y.tab /\ x.n = y.n)
    /\ \A x \in intercepted :
           x.saved => \E k \in 1..Len(savedRequests) :
                          savedRequests[k] = [id |-> x.id, tab |-> x.tab, n |-> x.n]

\* The first exchanges of two tabs got the same id and the second save
\* replaced the first.
C31_Replaced ==
    \E x, y \in intercepted :
        /\ x.tab # y.tab
        /\ x.id = y.id
        /\ x.saved /\ y.saved
        /\ Len(savedRequests) = 1

\* ---------------------------------------------------------------------
\* HybridBackgroundManager (part_007): the ways a tab leaves activeTabs.
\* The history record of tab t is the t-th record (executeSchedule created
\* it before openTrackedTab).
\* ---------------------------------------------------------------------

StallFrame ==
    UNCHANGED <<schedules, processingQueue, firings, checks, isProcessing,
                storageVars, callVars, exec, activeTabs, removing,
                injections, alarms, execs, pageVars,
                requestCounter, intercepted, savedRequests, settingsPoll>>

\* The TAB_CLOSE_TIMEOUT_MS timer fires: closeTab(tabId) up to its awaits of
\* getTrackedDataForSchedule and updateExecution; no entry, no work.
HybridTimerFires(t) ==
    /\ t \in timers
    /\ timers' = timers \ {t}
    /\ closing' = [closing EXCEPT ![t] =
                      IF t \in DOMAIN hybridTabs
                          THEN [pc |-> "update", historyId |-> t, endTime |-> NoTime]
                          ELSE CloseDone]
    /\ UNCHANGED <<now, isRunning, history, hybridTabs, tabs, removed,
                   finalizeCalls, stopping>>
    /\ StallFrame

\* closeTab after updateExecution({endTime, success: trackedData.length > 0}):
\* it goes on to chrome.tabs.remove; a rejection goes to catch and finally.
HybridCloseUpdate(t) ==
    /\ closing[t].pc = "update"
    /\ \E ok \in BOOLEAN :
         IF ok
             THEN /\ history' = updateExecution(history, closing[t].historyId, now,
                                                stored # <<>>)
                  /\ finalizeCalls' = [finalizeCalls EXCEPT ![t] = @ + 1]
                  /\ closing' = [closing EXCEPT ![t].pc = "remove", ![t].endTime = now]
                  /\ UNCHANGED hybridTabs
             ELSE /\ closing' = [closing EXCEPT ![t] = CloseDone]
                  /\ hybridTabs' = deleteEntry(hybridTabs, t)
                  /\ UNCHANGED <<history, finalizeCalls>>
    /\ UNCHANGED <<now, isRunning, tabs, timers, removed, stopping>>
    /\ StallFrame

\* closeTab after `await chrome.tabs.remove(tabId)`, resolved or rejected,
\* and its finally block: activeTabs.delete(tabId).
HybridCloseRemove(t) ==
    /\ closing[t].pc = "remove"
    /\ tabs' = tabs \ {t}
    /\ removed' = IF t \in tabs THEN removed \cup {t} ELSE removed
    /\ closing' = [closing EXCEPT ![t] = CloseDone]
    /\ hybridTabs' = deleteEntry(hybridTabs, t)
    /\ UNCHANGED <<now, isRunning, history, timers, finalizeCalls, stopping>>
    /\ StallFrame

\* chrome.tabs.onRemoved: handleTabRemoved(tabId) writes the end of the
\* record (the write may fail, which is logged) and deletes the entry.
HybridTabRemoved(t) ==
    /\ t \in removed
    /\ removed' = removed \ {t}
    /\ IF t \in DOMAIN hybridTabs
           THEN /\ \E ok \in BOOLEAN :
                       IF ok
                           THEN /\ history' = updateExecution(history, t, now,
                                                   hybridTabs[t].trackedCount > 0)
                                /\ finalizeCalls' = [finalizeCalls EXCEPT ![t] = @ + 1]
                           ELSE UNCHANGED <<history, finalizeCalls>>
                /\ hybridTabs' = deleteEntry(hybridTabs, t)
           ELSE UNCHANGED <<history, finalizeCalls, hybridTabs>>
    /\ UNCHANGED <<now, isRunning, tabs, timers, closing, stopping>>
    /\ StallFrame

\* stopScheduler(): isRunning = false, and closeAllActiveTabs up to its
\* await: chrome.tabs.remove was called for every key of activeTabs.
HybridStop ==
    /\ ~stopping
    /\ isRunning' = FALSE
    /\ tabs' = tabs \ DOMAIN hybridTabs
    /\ removed' = removed \cup (tabs \cap DOMAIN hybridTabs)
    /\ stopping' = TRUE
    /\ UNCHANGED <<now, history, hybridTabs, timers, closing, finalizeCalls>>
    /\ StallFrame

\* closeAllActiveTabs after Promise.allSettled: activeTabs.clear().
HybridStopClear ==
    /\ stopping
    /\ stopping' = FALSE
    /\ hybridTabs' = <<>>
    /\ UNCHANGED <<now, isRunning, history, tabs, timers, closing, removed,
                   finalizeCalls>>
    /\ StallFrame

\* startScheduler()
HybridStart ==
    /\ ~isRunning
    /\ isRunning' = TRUE
    /\ UNCHANGED <<now, history, hybridTabs, tabs, timers, closing, removed,
                   finalizeCalls, stopping>>
    /\ StallFrame

InitStall ==
    /\ now = 0
    /\ isRunning = TRUE
    /\ schedules = [s \in Schedules |-> OnceSchedule(0)]
    /\ processingQueue = {}
    /\ history = [t \in HybridTabIds |->
                     [scheduleId |-> "s1", startTime |-> 0, endTime |-> NoTime,
                      success |-> FALSE, tracked |-> FALSE]]
    /\ firings = <<>>
    /\ checks = {}
    /\ isProcessing = FALSE
    /\ ManagerIdle
    /\ saver \in {"tracker", "bridge"}
    /\ stored = <<>>
    /\ saves = {}
    /\ finished = {}
    /\ nextId = 0
    /\ sandboxes = {}
    /\ CallIdle
    /\ HookIdle

NextStall ==
    \/ NextHybrid
    \/ \E t \in HybridTabIds : HybridTimerFires(t)
    \/ \E t \in HybridTabIds : HybridCloseUpdate(t)
    \/ \E t \in HybridTabIds : HybridCloseRemove(t)
    \/ \E t \in HybridTabIds : ExternalClose(t)
    \/ \E t \in HybridTabIds : HybridTabRemoved(t)
    \/ HybridStop
    \/ HybridStopClear
    \/ HybridStart

\* HybridBackgroundManager with the hard timer, external closes and stops.
SpecStall == InitStall /\ [][NextStall]_vars

\* No heartbeat of the tab for longer than the inactivity window.
Stalled(tab, t) ==
    t - (IF tab.lastHeartbeat # NoTime THEN tab.lastHeartbeat ELSE tab.startTime)
        > HEARTBEAT_TIMEOUT

\* C32: a tab without a heartbeat for the inactivity window is reported as
\* inactive, and a tab leaves the registry only in a closeTab call started
\* by the hard timer, on an external close, or in a scheduler stop.
C32_StalledIsOnlyReported ==
    /\ [](\A t \in DOMAIN hybridTabs :
             Stalled(hybridTabs[t], now) => getTabStatus(hybridTabs[t], now) = "inactive")
    /\ [][\A t \in DOMAIN hybridTabs :
             t \notin DOMAIN hybridTabs' =>
                 \/ closing[t].pc \in {"update", "remove"}
                 \/ t \in removed
                 \/ stopping]_vars

\* A stalled tab is still open and registered, its timer armed.
C32_Witness ==
    \E t \in DOMAIN hybridTabs :
        /\ Stalled(hybridTabs[t], now)
        /\ getTabStatus(hybridTabs[t], now) = "inactive"
        /\ t \in tabs /\ t \in timers
        /\ ~stopping /\ isRunning

\* ---------------------------------------------------------------------
\* BackgroundManager (background.ts): stopScheduler and startScheduler,
\* and checkDueSchedules as the loop it is: isRunning is read on entry,
\* then getActiveSchedules is awaited, then each schedule of the list is
\* handled in turn, awaiting executeSchedule for a due one.
\* ---------------------------------------------------------------------

StopFrame ==
    UNCHANGED <<now, processingQueue, firings, isProcessing, storageVars,
                callVars, hybridTabs, injections, pageVars, lateVars,
                exec, timers, closing, removing, finalizeCalls>>

\* stopScheduler(): isRunning = false, the interval and all alarms are
\* cleared, chrome.tabs.remove is called for every registered tab and the
\* registry is cleared at once.
StopScheduler ==
    /\ isRunning
    /\ isRunning' = FALSE
    /\ alarms' = <<>>
    /\ tabs' = tabs \ DOMAIN activeTabs
    /\ removed' = removed \cup (tabs \cap DOMAIN activeTabs)
    /\ activeTabs' = NoEntries
    /\ UNCHANGED <<schedules, history, checks, execs>>
    /\ StopFrame

\* The list getActiveSchedules() returns: the enabled schedules.
RECURSIVE activeSchedules(_, _)
activeSchedules(all, order) ==
    IF order = <<>> THEN <<>>
    ELSE (IF all[Head(order)].enabled THEN <<Head(order)>> ELSE <<>>)
             \o activeSchedules(all, Tail(order))

\* A checkDueSchedules call that passed `if (!this.isRunning) return` and
\* awaits getActiveSchedules().
NewCheck == [pc |-> "read", rest |-> <<>>, waiting |-> 0]

\* The 60 s interval calls checkDueSchedules; the interval exists while the
\* scheduler runs.
CheckDueStart ==
    /\ isRunning
    /\ checks = {}
    /\ checks' = {NewCheck}
    /\ UNCHANGED <<isRunning, schedules, history, alarms, execs, tabs, removed, activeTabs>>
    /\ StopFrame

\* startScheduler(): isRunning = true and the initial checkDueSchedules.
StartScheduler ==
    /\ ~isRunning
    /\ checks = {}
    /\ isRunning' = TRUE
    /\ checks' = {NewCheck}
    /\ UNCHANGED <<schedules, history, alarms, execs, tabs, removed, activeTabs>>
    /\ StopFrame

\* `await ScheduleRepository.getActiveSchedules()` resolves (a rejection
\* ends the call).
CheckDueRead(c) ==
    /\ c \in checks
    /\ c.pc = "read"
    /\ \E ok \in BOOLEAN :
         checks' = IF ok
                       THEN {[c EXCEPT !.pc = "loop",
                                       !.rest = activeSchedules(schedules, ScheduleOrder)]}
                       ELSE {}
    /\ UNCHANGED <<isRunning, schedules, history, alarms, execs, tabs, removed, activeTabs>>
    /\ StopFrame

\* One turn of the loop, once the executeSchedule call awaited by the turn
\* before has returned: a due schedule is executed, for another one the
\* alarm schedule_<id> is created; after the last turn the call returns.
CheckDueStep(c) ==
    /\ c \in checks
    /\ c.pc = "loop"
    /\ IF c.waiting = 0 THEN TRUE ELSE execs[c.waiting].pc = "done"
    /\ IF c.rest = <<>>
           THEN /\ checks' = {}
                /\ UNCHANGED <<history, execs, alarms>>
           ELSE LET sid == Head(c.rest) IN
                IF schedules[sid].nextRun <= now
                    THEN /\ Len(execs) < MaxExecs
                         /\ executeScheduleStart(sid)
                         /\ checks' = {[c EXCEPT !.rest = Tail(c.rest),
                                                 !.waiting = IF schedules[sid].enabled
                                                                 THEN Len(execs) + 1 ELSE 0]}
                         /\ UNCHANGED alarms
                    ELSE /\ alarms' = setEntry(alarms, sid, schedules[sid].nextRun)
                         /\ checks' = {[c EXCEPT !.rest = Tail(c.rest), !.waiting = 0]}
                         /\ UNCHANGED <<history, execs>>
    /\ UNCHANGED <<isRunning, schedules, tabs, removed, activeTabs>>
    /\ StopFrame

\* s1 is due; s2 is due now or later.
InitStopSchedules ==
    {[s \in Schedules |->
        IF s = "s1"
            THEN [type |-> "interval", enabled |-> TRUE, nextRun |-> 0, quantity |-> 1,
                  param |-> 1]
            ELSE OnceSchedule(t)] : t \in 0..MaxTime}

InitStop ==
    /\ now = 0
    /\ isRunning = TRUE
    /\ schedules \in InitStopSchedules
    /\ processingQueue = {}
    /\ history = <<>>
    /\ firings = <<>>
    /\ checks = {}
    /\ isProcessing = FALSE
    /\ ManagerIdle
    /\ StorageIdle
    /\ CallIdle
    /\ HookIdle

NextStop ==
    \/ Advance
    \/ CheckDueStart
    \/ \E c \in checks : CheckDueRead(c)
    \/ \E c \in checks : CheckDueStep(c)
    \/ \E sid \in Schedules : handleAlarm(sid)
    \/ \E e \in 1..MaxExecs : ExecOpenTab(e)
    \/ \E e \in 1..MaxExecs : ExecUpdateNext(e)
    \/ StopScheduler
    \/ StartScheduler

\* BackgroundManager: due checks, alarms and executions, stopped and started.
SpecStop == InitStop /\ [][NextStop]_vars

\* C33: while the scheduler is stopped no executeSchedule call starts a
\* firing.
C33_NoFiringWhileStopped ==
    [][(~isRunning /\ ~isRunning') => Len(execs') = Len(execs)]_vars

\* The scheduler was stopped while a due check still has schedules to handle.
C33_StoppedMidCheck ==
    /\ ~isRunning
    /\ \E c \in checks : c.pc = "loop" /\ c.rest # <<>>

\* ---------------------------------------------------------------------------
\* stopScheduler while worker contexts are open
\* ---------------------------------------------------------------------------

NextHalt ==
    \/ NextManager
    \/ StopScheduler

\* BackgroundManager: one firing, its tabs, the close timers, the browser and
\* a STOP_SCHEDULER message.
SpecHalt == InitManager /\ [][NextHalt]_vars

\* C34: a stop finalizes the ExecutionRecord of every context it closes.  The
\* record is written by the removal handler from the context's registry entry,
\* so the stop step leaves each context it closes either with its record
\* finalized (endTime written) or still registered for that handler.
C34_StopFinalizesRecords ==
    [][(isRunning /\ ~isRunning') =>
          \A t \in tabs \cap DOMAIN activeTabs :
              t \notin tabs' =>
                  \/ t \in DOMAIN activeTabs'
                  \/ history'[activeTabs[t].historyId].endTime # NoTime]_vars

\* The scheduler was stopped with a context open, the context is gone and all
\* handlers have returned; no closeTab ran and no update of the record was
\* ever attempted, and the record has no endTime.
C34_Dangling ==
    /\ ~isRunning
    /\ exec.pc \in {"idle", "done"}
    /\ tabs = {}
    /\ timers # {}
    /\ \A t \in TabIds :
          Quiet(t) /\ closing[t].pc = "idle" /\ finalizeCalls[t] = 0
    /\ \E h \in DOMAIN history : history[h].endTime = NoTime

\* ---------------------------------------------------------------------------
\* The tracked requests of an ExecutionRecord
\* ---------------------------------------------------------------------------

\* db.history.update(id, updates): every top-level key of `updates` replaces
\* the record's value for that key; the other keys are kept.
tableUpdate(rec, updates) ==
    [k \in DOMAIN rec \cup DOMAIN updates |->
        IF k \in DOMAIN updates THEN updates[k] ELSE rec[k]]

\* executionData.trackedRequests of a record; a record that was never given
\* executionData has none.
trackedRequests(rec) ==
    IF "executionData" \in DOMAIN rec
    THEN rec.executionData.trackedRequests
    ELSE <<>>

\* The trackedData object the two handlers build.
trackedData(source, t) == [source |-> source, tab |-> t, timestamp |-> now]

\* handleApiTracked / handleWebRequestTracked for an exchange of tab t that is
\* in the registry: `await HistoryRepository.updateExecution(historyId,
\* {executionData: {trackedRequests: [trackedData]}, logs})`; a rejection is
\* caught and logged.
trackExchange(source, t) ==
    /\ t \in tabs
    /\ t \in DOMAIN activeTabs
    /\ \E ok \in BOOLEAN :
         history' =
            IF ok
            THEN [history EXCEPT ![activeTabs[t].historyId] =
                     tableUpdate(@, [executionData |->
                                        [trackedRequests |-> <<trackedData(source, t)>>],
                                     tracked |-> TRUE])]
            ELSE history
    /\ UNCHANGED <<now, schedules, schedulerVars, managerVars, storageVars, callVars, hookVars>>

handleApiTracked(t) == trackExchange("MAIN_WORLD", t)

handleWebRequestTracked(t) == trackExchange("webRequest", t)

NextRetain ==
    \/ Advance
    \/ \E sid \in Schedules : ManagerExecute(sid)
    \/ OpenTrackedTab
    \/ ManagerUpdateNext
    \/ \E t \in TabIds : handleApiTracked(t)
    \/ \E t \in TabIds : handleWebRequestTracked(t)
    \/ \E t \in TabIds : ExternalClose(t)
    \/ \E t \in TabIds : HandleTabRemoved(t)
    \/ \E t \in TabIds : TabRemovedUpdate(t)

\* BackgroundManager: one firing, its tabs and the tracking events of the tabs.
SpecRetain == InitManager /\ [][NextRetain]_vars

\* C35: every exchange accepted for a context is retained in the context's
\* ExecutionRecord: no step drops or reorders an entry of
\* executionData.trackedRequests, so that n accepted events leave n entries.
C35_TrackedRequestsRetained ==
    [][\A h \in DOMAIN history :
          /\ Len(trackedRequests(history'[h])) >= Len(trackedRequests(history[h]))
          /\ \A k \in 1..Len(trackedRequests(history[h])) :
                trackedRequests(history'[h])[k] = trackedRequests(history[h])[k]]_vars

\* A record holds one exchange of tab 2 and none of tab 1, whose exchange was
\* accepted before.
C35_Overwritten ==
    \E h \in DOMAIN history :
        /\ Len(trackedRequests(history[h])) = 1
        /\ trackedRequests(history[h])[1].source = "webRequest"
        /\ trackedRequests(history[h])[1].timestamp = 1

\* ---------------------------------------------------------------------------
\* BackgroundScheduler: the tracked requests a firing writes into its record
\* ---------------------------------------------------------------------------

TrackedFrame ==
    UNCHANGED <<isRunning, schedules, checks, isProcessing, managerVars, callVars,
                hookVars, saver, saves, finished, nextId, sandboxes>>

\* The clock advances between the steps of a firing.
TrackedTick ==
    /\ now < MaxTime
    /\ now' = now + 1
    /\ UNCHANGED <<processingQueue, history, firings, stored>>
    /\ TrackedFrame

\* executeSchedule(schedule) up to executeBusinessLogic: the duplicate guard,
\* processingQueue.add and HistoryRepository.create with startTime.
BeginFiring(sid) ==
    /\ sid \notin processingQueue
    /\ Len(firings) < MaxFirings
    /\ processingQueue' = processingQueue \cup {sid}
    /\ history' = Append(history,
                     [scheduleId |-> sid, startTime |-> now, endTime |-> NoTime,
                      success |-> FALSE, tracked |-> FALSE])
    /\ firings' = Append(firings, [sid |-> sid, hid |-> Len(history) + 1, pc |-> "logic"])
    /\ UNCHANGED <<now, stored>>
    /\ TrackedFrame

\* The message listener setupTrackedDataListener installed for a context of
\* firing f receives SAVE_TRACKED_REQUEST: saveTrackedRequest(data, scheduleId).
ContextSaves(f) ==
    /\ f \in DOMAIN firings
    /\ firings[f].pc = "logic"
    /\ Len(stored) < MaxRequests
    /\ stored' = saveTrackedRequest(stored,
                     [scheduleId |-> firings[f].sid, savedAt |-> now], SCHEDULER_CAP)
    /\ UNCHANGED <<now, processingQueue, history, firings>>
    /\ TrackedFrame

\* The global webRequest monitor sees a request matching the tracking pattern
\* in any tab: saveGlobalTrackedRequest(request).
saveGlobalTrackedRequest ==
    /\ Len(stored) < MaxRequests
    /\ stored' = saveTrackedRequest(stored,
                     [scheduleId |-> "global", savedAt |-> now], SCHEDULER_CAP)
    /\ UNCHANGED <<now, processingQueue, history, firings>>
    /\ TrackedFrame

\* getTrackedData(scheduleId).requests: the stored entries of the schedule and
\* the global ones.
getTrackedData(list, scheduleId) ==
    SelectSeq(list, LAMBDA req : req.scheduleId = scheduleId \/ req.scheduleId = "global")

\* The end of executeBusinessLogic and of executeSchedule's try block:
\* getTrackedData, updateExecution({endTime, success: true, executionData}),
\* and the finally block's processingQueue.delete.
EndFiring(f) ==
    /\ f \in DOMAIN firings
    /\ firings[f].pc = "logic"
    /\ history' = [history EXCEPT ![firings[f].hid] =
                      tableUpdate(@, [endTime |-> now, success |-> TRUE,
                                      executionData |->
                                         [trackedRequests |->
                                             getTrackedData(stored, firings[f].sid)]])]
    /\ firings' = [firings EXCEPT ![f].pc = "done"]
    /\ processingQueue' = processingQueue \ {firings[f].sid}
    /\ UNCHANGED <<now, stored>>
    /\ TrackedFrame

InitTracked ==
    /\ now = 0
    /\ isRunning = TRUE
    /\ schedules \in InitSchedules
    /\ processingQueue = {}
    /\ history = <<>>
    /\ firings = <<>>
    /\ checks = {}
    /\ isProcessing = FALSE
    /\ ManagerIdle
    /\ saver = "scheduler"
    /\ stored = <<>>
    /\ saves = {}
    /\ finished = {}
    /\ nextId = 0
    /\ sandboxes = {}
    /\ CallIdle
    /\ HookIdle

NextTracked ==
    \/ TrackedTick
    \/ \E sid \in Schedules : BeginFiring(sid)
    \/ \E f \in DOMAIN firings : ContextSaves(f)
    \/ saveGlobalTrackedRequest
    \/ \E f \in DOMAIN firings : EndFiring(f)

\* BackgroundScheduler: firings, the saves of their contexts and of the global
\* monitor, and the write of the tracked requests into the record.
SpecTracked == InitTracked /\ [][NextTracked]_vars

\* C36: the tracked requests written into a firing's record are exactly those
\* captured for the firing's schedule during the firing: every written entry
\* was saved since the firing started, for this schedule or by the global
\* monitor (which also sees the firing's contexts), and every entry saved for
\* this schedule while the firing ran is written.
C36_RecordHoldsFiringsRequests ==
    \A h \in DOMAIN history :
        "executionData" \in DOMAIN history[h] =>
            LET rec == history[h]
                written == trackedRequests(rec)
            IN  /\ \A k \in 1..Len(written) :
                      /\ written[k].scheduleId \in {rec.scheduleId, "global"}
                      /\ written[k].savedAt >= rec.startTime
                /\ \A k \in 1..Len(stored) :
                      (/\ stored[k].scheduleId = rec.scheduleId
                       /\ stored[k].savedAt >= rec.startTime
                       /\ stored[k].savedAt < rec.endTime)
                        => \E j \in 1..Len(written) : written[j] = stored[k]

\* The record of a later firing holds a request saved for its schedule before
\* the firing started.
C36_EarlierFiringWritten ==
    \E h \in DOMAIN history :
        \E k \in 1..Len(trackedRequests(history[h])) :
            /\ trackedRequests(history[h])[k].scheduleId = history[h].scheduleId
            /\ trackedRequests(history[h])[k].savedAt < history[h].startTime

\* ---------------------------------------------------------------------------
\* The link of a schedule: missing, disabled or enabled
\* ---------------------------------------------------------------------------

\* What LinkRepository.getById(schedule.linkId) finds.
LinkStates == {"missing", "disabled", "enabled"}

\* Schedules due at once, each with the state of its link in the store.
InitLinkSchedules ==
    {[s \in Schedules |-> tableUpdate(OnceSchedule(0), [link |-> l[s]])] :
        l \in [Schedules -> LinkStates]}

LinkFrame ==
    UNCHANGED <<isRunning, checks, storageVars, callVars, hybridTabs, injections,
                alarms, execs, pendingRequests, webRequests, fetches, lateVars,
                closing, removed, removing, finalizeCalls>>

\* The user edits or deletes a link on the options page.
SetLink(sid, l) ==
    /\ schedules[sid].link # l
    /\ schedules' = [schedules EXCEPT ![sid].link = l]
    /\ UNCHANGED <<now, processingQueue, history, firings, isProcessing, exec,
                   activeTabs, tabs, timers, backgroundTabs, workerTabs>>
    /\ LinkFrame

\* BackgroundScheduler.executeSchedule(schedule) up to the try block: the
\* duplicate guard, processingQueue.add and HistoryRepository.create.
SchedulerExecute(sid) ==
    /\ sid \notin processingQueue
    /\ Len(firings) < MaxFirings
    /\ processingQueue' = processingQueue \cup {sid}
    /\ history' = Append(history,
                     [scheduleId |-> sid, startTime |-> now, endTime |-> NoTime,
                      success |-> FALSE, tracked |-> FALSE])
    /\ firings' = Append(firings,
                     [sid |-> sid, hid |-> Len(history) + 1, pc |-> "getLink",
                      link |-> "unread"])
    /\ UNCHANGED <<now, schedules, isProcessing, exec, activeTabs, tabs, timers,
                   backgroundTabs, workerTabs>>
    /\ LinkFrame

\* `const link = await LinkRepository.getById(schedule.linkId); if (!link)
\* throw ...`: a missing link goes through the catch block (endTime, success
\* false) and the finally block; any link that is found, enabled or not,
\* lets the firing go on to executeBusinessLogic(link, schedule).
SchedulerGetLink(f) ==
    /\ f \in DOMAIN firings
    /\ firings[f].pc = "getLink"
    /\ LET l == schedules[firings[f].sid].link IN
         IF l = "missing"
         THEN /\ history' = updateExecution(history, firings[f].hid, now, FALSE)
              /\ processingQueue' = processingQueue \ {firings[f].sid}
              /\ isProcessing' = FALSE
              /\ firings' = [firings EXCEPT ![f].pc = "done", ![f].link = l]
         ELSE /\ isProcessing' = TRUE
              /\ firings' = [firings EXCEPT ![f].pc = "logic", ![f].link = l]
              /\ UNCHANGED <<history, processingQueue>>
    /\ UNCHANGED <<now, schedules, exec, activeTabs, tabs, timers, backgroundTabs,
                   workerTabs>>
    /\ LinkFrame

\* executeBusinessLogic: createBackgroundTabWithTracking(link, schedule) opens
\* a context with chrome.tabs.create({url: link.url, ...}).
SchedulerOpenContext(f) ==
    /\ f \in DOMAIN firings
    /\ firings[f].pc = "logic"
    /\ CreateBackgroundTab(firings[f].sid)

\* The rest of executeSchedule: updateExecution({endTime, success: true}) and
\* the finally block.
SchedulerFinish(f) ==
    /\ f \in DOMAIN firings
    /\ firings[f].pc = "logic"
    /\ history' = updateExecution(history, firings[f].hid, now, TRUE)
    /\ processingQueue' = processingQueue \ {firings[f].sid}
    /\ isProcessing' = FALSE
    /\ firings' = [firings EXCEPT ![f].pc = "done"]
    /\ UNCHANGED <<now, schedules, exec, activeTabs, tabs, timers, backgroundTabs,
                   workerTabs>>
    /\ LinkFrame

\* BackgroundManager.executeSchedule(scheduleId) up to the tab loop: `if
\* (!schedule || !schedule.enabled) return; ... if (!link || !link.enabled)
\* return;` and HistoryRepository.create.
ManagerLinkExecute(sid) ==
    /\ exec.pc = "idle"
    /\ IF schedules[sid].enabled /\ schedules[sid].link = "enabled"
       THEN /\ history' = Append(history,
                   [scheduleId |-> sid, startTime |-> now, endTime |-> NoTime,
                    success |-> FALSE, tracked |-> FALSE])
            /\ exec' = [pc |-> "open", sid |-> sid, hid |-> Len(history) + 1,
                        i |-> 0, type |-> schedules[sid].type,
                        quantity |-> schedules[sid].quantity,
                        param |-> schedules[sid].param,
                        link |-> schedules[sid].link]
       ELSE /\ history' = history
            /\ exec' = ExecDone
    /\ UNCHANGED <<now, schedules, processingQueue, firings, isProcessing,
                   activeTabs, tabs, timers, backgroundTabs, workerTabs>>
    /\ LinkFrame

InitLink ==
    /\ now = 0
    /\ isRunning = TRUE
    /\ schedules \in InitLinkSchedules
    /\ processingQueue = {}
    /\ history = <<>>
    /\ firings = <<>>
    /\ checks = {}
    /\ isProcessing = FALSE
    /\ ManagerIdle
    /\ StorageIdle
    /\ CallIdle
    /\ HookIdle

NextLink ==
    \/ \E sid \in Schedules, l \in LinkStates : SetLink(sid, l)
    \/ \E sid \in Schedules : SchedulerExecute(sid)
    \/ \E f \in 1..MaxFirings : SchedulerGetLink(f)
    \/ \E f \in 1..MaxFirings : SchedulerOpenContext(f)
    \/ \E f \in 1..MaxFirings : SchedulerFinish(f)
    \/ \E sid \in Schedules : ManagerLinkExecute(sid)
    \/ OpenTrackedTab
    \/ ManagerUpdateNext

\* Both schedulers firing schedules whose links the user may edit.
SpecLink == InitLink /\ [][NextLink]_vars

\* C37: a worker context is opened only by a firing that found the
\* schedule's link present and enabled.
C37_NoContextWithoutEnabledLink ==
    [][/\ Len(workerTabs') > Len(workerTabs) =>
             \E f \in DOMAIN firings :
                 /\ firings[f].pc = "logic"
                 /\ firings[f].sid = workerTabs'[Len(workerTabs')].scheduleId
                 /\ firings[f].link = "enabled"
       /\ \A t \in TabIds :
             (t \notin tabs /\ t \in tabs') => exec.link = "enabled"]_vars

\* A context is open for a schedule whose link is disabled in the store and
\* was disabled when the firing read it.
C37_OpenedForDisabledLink ==
    \E t \in DOMAIN workerTabs, f \in DOMAIN firings :
        /\ workerTabs[t].open
        /\ firings[f].sid = workerTabs[t].scheduleId
        /\ firings[f].link = "disabled"
        /\ schedules[firings[f].sid].link = "disabled"
        /\ \A g \in DOMAIN firings : g # f => firings[g].sid # firings[f].sid

\* ---------------------------------------------------------------------------
\* The published processing state
\* ---------------------------------------------------------------------------

\* Firing f has published isProcessing = true and has not reached its finally
\* block: its schedule is in processingQueue.
Published(f) ==
    /\ firings[f].pc \in {"logic", "next"}
    /\ firings[f].sid \in processingQueue

\* C38: the published processing state has isProcessing = true whenever
\* processingQueue holds a schedule whose firing has published its start.
C38_ProcessingWhileQueued ==
    (\E f \in DOMAIN firings : Published(f)) => isProcessing

\* Two schedules fired concurrently, one has finished, the other is in its
\* business logic with its claim held, and the published state says idle.
C38_IdleWhileQueued ==
    \E f, g \in DOMAIN firings :
        /\ firings[f].sid # firings[g].sid
        /\ firings[f].pc = "done"
        /\ Published(g)
        /\ ~isProcessing

\* ---------------------------------------------------------------------------
\* waitForSettings of the three hooks
\* ---------------------------------------------------------------------------

\* The request tracker, the isolated-world bridge and the main-world
\* interceptor.
SettingsHooks == {"tracker", "isolated", "mainWorld"}

PollFrame ==
    UNCHANGED <<now, schedules, history, schedulerVars, managerVars, storageVars,
                callVars, hybridTabs, injections, alarms, execs, pageVars,
                requestCounter, intercepted, savedRequests, stopping>>

\* window.EXTENSION_SETTINGS is set by the injected settings script.
SettingsInjected ==
    /\ settingsPoll.pc \in {"idle", "polling"}
    /\ ~settingsPoll.settings
    /\ settingsPoll' = [settingsPoll EXCEPT !.settings = TRUE]
    /\ PollFrame

\* checkSettings() of a hook whose counter stands at `attempts`: TRUE when
\* the hook stops trying.  The tracker counts inside checkSettings and gives up
\* at its maxAttempts; the bridge counts in its interval callback; the
\* main-world interceptor has no counter and stops only when the settings
\* are there.
checkSettings(hook, attempts, settings) ==
    CASE hook = "tracker" -> settings \/ attempts >= TRACKER_MAX_ATTEMPTS
      [] hook = "isolated" -> settings \/ attempts >= ISOLATED_MAX_ATTEMPTS
      [] hook = "mainWorld" -> settings

\* The first call of waitForSettings: the check is made at once, and a timer
\* (setInterval, or setTimeout in the main world) is set when it fails.  The
\* bridge's counter starts with the interval; the calls of the main-world
\* function are counted here as attempts.
waitForSettings ==
    /\ settingsPoll.pc = "idle"
    /\ LET p == settingsPoll
           n == IF p.hook = "isolated" THEN 0 ELSE 1
       IN  settingsPoll' =
              [p EXCEPT !.attempts = n,
                        !.pc = IF checkSettings(p.hook, n, p.settings)
                               THEN "stopped" ELSE "polling"]
    /\ PollFrame

\* The timer fires after 100 ms: the next attempt.
PollTimer ==
    /\ settingsPoll.pc = "polling"
    /\ settingsPoll.attempts < MaxPolls
    /\ LET p == settingsPoll
           n == p.attempts + 1
       IN  settingsPoll' =
              [p EXCEPT !.attempts = n,
                        !.pc = IF checkSettings(p.hook, n, p.settings)
                               THEN "stopped" ELSE "polling"]
    /\ PollFrame

InitPoll ==
    /\ now = 0
    /\ isRunning = TRUE
    /\ schedules = [s \in Schedules |-> OnceSchedule(0)]
    /\ processingQueue = {}
    /\ history = <<>>
    /\ firings = <<>>
    /\ checks = {}
    /\ isProcessing = FALSE
    /\ ManagerIdle
    /\ StorageIdle
    /\ CallIdle
    /\ hybridTabs = <<>>
    /\ injections = <<>>
    /\ alarms = <<>>
    /\ execs = <<>>
    /\ PageIdle
    /\ requestCounter = <<>>
    /\ intercepted = {}
    /\ savedRequests = <<>>
    /\ stopping = FALSE
    /\ settingsPoll \in {[NoPoll EXCEPT !.hook = h] : h \in SettingsHooks}

NextPoll ==
    \/ SettingsInjected
    \/ waitForSettings
    \/ PollTimer

\* One hook of a page waiting for settings that arrive at some time or never.
SpecPoll == InitPoll /\ [][NextPoll]_vars

\* The number of attempts after which a hook has stopped polling: the
\* hook's own maxAttempts, and the larger of the two for the hook without one.
attemptsBound(hook) ==
    IF hook = "tracker" THEN TRACKER_MAX_ATTEMPTS ELSE ISOLATED_MAX_ATTEMPTS

\* C39: each hook's waitForSettings stops polling after a bounded number of
\* attempts: a hook that is still polling has made fewer attempts than the
\* bound.
C39_PollingStops ==
    settingsPoll.pc = "polling" =>
        settingsPoll.attempts < attemptsBound(settingsPoll.hook)

\* The main-world interceptor is still polling after more attempts than any
\* hook's maxAttempts.
C39_StillPolling ==
    /\ settingsPoll.hook = "mainWorld"
    /\ settingsPoll.pc = "polling"
    /\ ~settingsPoll.settings
    /\ settingsPoll.attempts > ISOLATED_MAX_ATTEMPTS
====
